---- MODULE Spec2Model ----
(***************************************************************************)
(* A model of pacbot-rs: the GameState of src/game_state.rs with the       *)
(* helpers of src/game_helpers.rs, src/ghost_helpers.rs,                   *)
(* src/ghost_state.rs and src/location.rs, the constants of                *)
(* src/variables.rs, and the GameEngine wrapper of src/game_engine.rs.     *)
(*                                                                         *)
(* Every function of the code is an operator of the same name that takes   *)
(* the game state (a record of the struct's fields) and returns the        *)
(* state the function leaves.  A run of the program threads one record    *)
(* through the operators; besides the fields of GameState the record       *)
(* carries the observations the properties read: the panic (if any) that   *)
(* ended the process, and what the last planning pass, collision pass and  *)
(* pellet collection did.                                                  *)
(***************************************************************************)
EXTENDS Integers, Sequences, FiniteSets, TLC

VARIABLES
    gs,             \* the GameState: a record of the fields of the struct
    panic,          \* "none", or the message of the panic that ended the process
    op,             \* the last call: its name, argument and which phases ran
    plan_log,       \* per agent: what the last planning pass did with it
    coll_log,       \* what the last collision pass did
    pellet_log,     \* what the last collect_pellet did
    engine_paused,  \* GameEngine.paused
    decoded,        \* the result of the last from_bytes call
    query,          \* the last read-only query: its arguments and its result
    script,         \* the calls the run opens with: pairs <<call, times>>
    steps_left,     \* the step calls the clock then still makes
    moves_left      \* the player moves the client then still sends

vars ==
    <<gs, panic, op, plan_log, coll_log, pellet_log, engine_paused, decoded,
      query, script, steps_left, moves_left>>

(***************************************************************************)
(* Bounds of the model.                                                    *)
(***************************************************************************)
MaxSteps == 60
MaxMoves == 3
MaxEngineSteps == 6
MaxCodecSteps == 13
MaxCodecMoves == 2
NumSeeds == 2

(***************************************************************************)
(* src/variables.rs                                                        *)
(***************************************************************************)
MAZE_ROWS == 31
MAZE_COLS == 28
INIT_UPDATE_PERIOD == 12
LEVEL_DURATION == 960
LEVEL_PENALTY_DURATION == 240
INIT_MODE == "SCATTER"
INIT_LEVEL == 1
INIT_LIVES == 3
GHOST_HOUSE_EXIT_POS == <<12, 13>>
PACMAN_SPAWN_LOC == [row |-> 23, col |-> 13, dir |-> "Up"]
FRUIT_SPAWN_LOC == [row |-> 17, col |-> 13, dir |-> "Stay"]
FRUIT_DURATION == 30
FRUIT_POINTS == 100
EMPTY_LOC == [row |-> 32, col |-> 32, dir |-> "Stay"]
GHOST_FRIGHT_STEPS == 40
INIT_PELLET_COUNT == 244
FRUIT_THRESHOLD1 == 174
FRUIT_THRESHOLD2 == 74
ANGER_THRESHOLD1 == 20
ANGER_THRESHOLD2 == 10
PELLET_POINTS == 10
SUPER_PELLET_POINTS == 50
COMBO_MULTIPLIER == 200

\* The agents by colour: Red = 0, Pink = 1, Cyan = 2, Orange = 3.
Red == 0
Pink == 1
Cyan == 2
Orange == 3
GHOST_NAMES == <<Red, Pink, Cyan, Orange>>
Colors == {Red, Pink, Cyan, Orange}

\* Indexed by colour + 1.
GHOST_SPAWN_LOCS ==
    << [row |-> 11, col |-> 13, dir |-> "Left"],
       [row |-> 13, col |-> 13, dir |-> "Down"],
       [row |-> 14, col |-> 11, dir |-> "Up"],
       [row |-> 14, col |-> 15, dir |-> "Up"] >>

GHOST_SCATTER_TARGETS ==
    << [row |-> -3, col |-> 25, dir |-> "Stay"],
       [row |-> -3, col |-> 2, dir |-> "Stay"],
       [row |-> 31, col |-> 27, dir |-> "Stay"],
       [row |-> 31, col |-> 0, dir |-> "Stay"] >>

GHOST_TRAPPED_STEPS == <<0, 5, 16, 32>>

\* The rows of the bit grids, row 0 first; bit i of a row is column i.
INIT_PELLETS ==
    << 0, 134193150, 69242946, 69242946, 69242946, 134217726, 69468738,
       69468738, 132619902, 2097216, 2097216, 2097216, 2097216, 2097216,
       2097216, 2097216, 2097216, 2097216, 2097216, 2097216, 134193150,
       69242946, 69242946, 121610190, 19137096, 19137096, 132619902,
       67145730, 67145730, 134217726, 0 >>

INIT_WALLS ==
    << 268435455, 134242305, 199192509, 199192509, 199192509, 134217729,
       198966717, 198966717, 135815553, 266301375, 266301375, 265814463,
       266075583, 266075583, 264502335, 266075583, 266075583, 265814463,
       266075583, 266075583, 134242305, 199192509, 199192509, 146800689,
       249298359, 249298359, 135815553, 201289725, 201289725, 134217729,
       268435455 >>

(***************************************************************************)
(* Integer widths.                                                         *)
(***************************************************************************)
U8_MAX == 255
U16_MAX == 65535

Min(a, b) == IF a < b THEN a ELSE b
Max(a, b) == IF a > b THEN a ELSE b

\* u8::saturating_sub
saturating_sub(a, b) == IF a > b THEN a - b ELSE 0

(***************************************************************************)
(* src/location.rs                                                         *)
(***************************************************************************)
Directions == {"Up", "Left", "Down", "Right", "Stay"}

all_except_stay == <<"Up", "Left", "Down", "Right">>

opposite(dir) ==
    CASE dir = "Up" -> "Down"
      [] dir = "Left" -> "Right"
      [] dir = "Down" -> "Up"
      [] dir = "Right" -> "Left"
      [] OTHER -> "Stay"

vector(dir) ==
    CASE dir = "Up" -> <<-1, 0>>
      [] dir = "Down" -> <<1, 0>>
      [] dir = "Left" -> <<0, -1>>
      [] dir = "Right" -> <<0, 1>>
      [] OTHER -> <<0, 0>>

is_super_pellet(position) ==
    /\ (position[1] = 3 \/ position[1] = 23)
    /\ (position[2] = 1 \/ position[2] = 26)

\* collides_with, were only positions in the maze to collide.
collides_with_in_maze(loc1, loc2) ==
    IF \/ loc1.row < 0 \/ loc1.row >= 31 \/ loc1.col < 0 \/ loc1.col >= 28
       \/ loc2.row < 0 \/ loc2.row >= 31 \/ loc2.col < 0 \/ loc2.col >= 28
    THEN FALSE
    ELSE loc1.row = loc2.row /\ loc1.col = loc2.col

collides_with(loc1, loc2) ==
    IF loc1.row >= 32 \/ loc1.col >= 32 \/ loc2.row >= 32 \/ loc2.col >= 32
    THEN FALSE
    ELSE loc1.row = loc2.row /\ loc1.col = loc2.col

is_empty(loc) == loc.row = EMPTY_LOC.row /\ loc.col = EMPTY_LOC.col

get_coords(loc) == <<loc.row, loc.col>>

get_neighbor_coords(loc, dir) ==
    <<loc.row + vector(dir)[1], loc.col + vector(dir)[2]>>

get_ahead_coords(loc, spaces) ==
    <<loc.row + vector(loc.dir)[1] * spaces, loc.col + vector(loc.dir)[2] * spaces>>

\* next_loc.advance_from(loc2): the location next_loc becomes.
advance_from(loc2) ==
    [row |-> get_ahead_coords(loc2, 1)[1],
     col |-> get_ahead_coords(loc2, 1)[2],
     dir |-> loc2.dir]

update_coords(loc, coords) == [loc EXCEPT !.row = coords[1], !.col = coords[2]]

dist_sq(p1, p2) ==
    (p2[1] - p1[1]) * (p2[1] - p1[1]) + (p2[2] - p1[2]) * (p2[2] - p1[2])

(***************************************************************************)
(* src/game_helpers.rs: bit operations and the maze                        *)
(***************************************************************************)
get_bit_u32(num, bit_idx) == (num \div (2 ^ bit_idx)) % 2 = 1

modify_bit_u32(num, bit_idx, bit_val) ==
    IF bit_val
    THEN (IF get_bit_u32(num, bit_idx) THEN num ELSE num + 2 ^ bit_idx)
    ELSE (IF get_bit_u32(num, bit_idx) THEN num - 2 ^ bit_idx ELSE num)

in_bounds(pos) ==
    /\ pos[1] >= 0 /\ pos[1] < MAZE_ROWS
    /\ pos[2] >= 0 /\ pos[2] < MAZE_COLS

pellet_at(s, pos) ==
    IF ~in_bounds(pos) THEN FALSE
    ELSE get_bit_u32(s.pellets[pos[1] + 1], pos[2])

\* wall_at, were a cell outside the maze open.
wall_at_open_outside(pos) ==
    IF ~in_bounds(pos) THEN FALSE
    ELSE get_bit_u32(INIT_WALLS[pos[1] + 1], pos[2])

\* self.walls is INIT_WALLS from construction on and is never written.
wall_at(pos) ==
    IF ~in_bounds(pos) THEN TRUE
    ELSE get_bit_u32(INIT_WALLS[pos[1] + 1], pos[2])

ghost_spawn_at(pos) ==
    /\ pos[1] >= 13 /\ pos[1] <= 14
    /\ pos[2] >= 11 /\ pos[2] <= 15

(***************************************************************************)
(* The mode durations.  The GameMode enum that game_state.rs and           *)
(* game_helpers.rs use (GameMode::SCATTER, GameMode::CHASE, duration()) is *)
(* not among the sources; its durations are the documented ones.           *)
(***************************************************************************)
duration(mode) == IF mode = "SCATTER" THEN 60 ELSE 180

(***************************************************************************)
(* The pseudo-random generator.  SmallRng::seed_from_u64(seed) followed by *)
(* choose() and gen() is a function of the seed alone; the generator (the  *)
(* rand crate) is outside the repository, and a linear congruential        *)
(* generator over 16 bits stands for it.                                   *)
(***************************************************************************)
SeedSpace == 2 ^ 16

\* valid_moves.choose(&mut rng): the index (from 1) chosen among n > 0 moves.
rng_choose(seed, n) == ((seed \div 256) % n) + 1

\* rng.gen(): the seed stored for the next draw.
rng_gen(seed) == (seed * 1103 + 12345) % SeedSpace

(***************************************************************************)
(* src/ghost_state.rs and src/ghost_helpers.rs: one agent                  *)
(***************************************************************************)
GhostState_new(color) ==
    [loc |-> EMPTY_LOC,
     next_loc |-> GHOST_SPAWN_LOCS[color + 1],
     trapped_steps |-> GHOST_TRAPPED_STEPS[color + 1],
     fright_steps |-> 0,
     spawning |-> TRUE,
     eaten |-> FALSE]

is_frightened(g) == g.fright_steps > 0

is_trapped(g) == g.trapped_steps > 0

\* GhostState::reset
ghost_reset(g, color) ==
    [g EXCEPT !.spawning = TRUE,
              !.trapped_steps = GHOST_TRAPPED_STEPS[color + 1],
              !.fright_steps = 0,
              !.loc = EMPTY_LOC,
              !.next_loc = GHOST_SPAWN_LOCS[color + 1]]

\* A respawn that leaves the spawning flag as it was.
ghost_respawn_keeping_spawning(g, color) ==
    [g EXCEPT !.eaten = TRUE,
              !.loc = EMPTY_LOC,
              !.next_loc =
                  [update_coords(@, get_coords(GHOST_SPAWN_LOCS[
                        (IF color = Red THEN Pink ELSE color) + 1]))
                   EXCEPT !.dir = "Up"]]

\* GhostState::respawn
ghost_respawn(g, color) ==
    [g EXCEPT !.spawning = TRUE,
              !.eaten = TRUE,
              !.loc = EMPTY_LOC,
              !.next_loc =
                  [update_coords(@, get_coords(GHOST_SPAWN_LOCS[
                        (IF color = Red THEN Pink ELSE color) + 1]))
                   EXCEPT !.dir = "Up"]]

\* GhostState::update, were it to leave the position alone.
ghost_update_staying(g) ==
    LET g1 == IF collides_with(g.loc, GHOST_SPAWN_LOCS[Red + 1]) /\ g.loc.dir # "Down"
              THEN [g EXCEPT !.spawning = FALSE]
              ELSE g
        g2 == IF g1.eaten
              THEN [g1 EXCEPT !.eaten = FALSE, !.fright_steps = 0]
              ELSE g1
    IN  IF is_frightened(g2) THEN [g2 EXCEPT !.fright_steps = @ - 1] ELSE g2

\* GhostState::update
ghost_update(g) ==
    LET g1 == IF collides_with(g.loc, GHOST_SPAWN_LOCS[Red + 1]) /\ g.loc.dir # "Down"
              THEN [g EXCEPT !.spawning = FALSE]
              ELSE g
        g2 == IF g1.eaten
              THEN [g1 EXCEPT !.eaten = FALSE, !.fright_steps = 0]
              ELSE g1
        g3 == IF is_frightened(g2)
              THEN [g2 EXCEPT !.fright_steps = @ - 1]
              ELSE g2
    IN  [g3 EXCEPT !.loc = g3.next_loc]

(***************************************************************************)
(* src/game_state.rs: the fields' helpers                                  *)
(***************************************************************************)
update_ready(s) == s.curr_ticks % s.update_period = 0

set_update_period(s, period) == [s EXCEPT !.update_period = period]

\* The score, were it added to as a plain u16 of a release build is.
increment_score_wrapping(s, change) ==
    [s EXCEPT !.curr_score = (@ + change) % (U16_MAX + 1)]

increment_score(s, change) ==
    [s EXCEPT !.curr_score = Min(U16_MAX, @ + change)]

\* The level, were it set without the update period that goes with it.
set_level_keeping_period(s, level) == [s EXCEPT !.curr_level = level]

set_level(s, level) ==
    set_update_period([s EXCEPT !.curr_level = level],
                      Max(1, INIT_UPDATE_PERIOD - 2 * (level - 1)))

increment_level(s) ==
    IF s.curr_level = U8_MAX THEN s ELSE set_level(s, s.curr_level + 1)

set_lives(s, lives) == [s EXCEPT !.curr_lives = lives]

decrement_lives(s) ==
    IF s.curr_lives = 0 THEN s ELSE [s EXCEPT !.curr_lives = @ - 1]

\* decrement_num_pellets, were it to count nothing.
decrement_num_pellets_not_counting(s) == s

decrement_num_pellets(s) ==
    IF s.num_pellets # 0 THEN [s EXCEPT !.num_pellets = @ - 1] ELSE s

reset_pellets(s) ==
    [s EXCEPT !.pellets = INIT_PELLETS, !.num_pellets = INIT_PELLET_COUNT]

fruit_exists(s) == s.fruit_steps > 0

set_fruit_steps(s, steps) == [s EXCEPT !.fruit_steps = steps]

decrement_fruit_steps(s) ==
    IF s.fruit_steps # 0 THEN [s EXCEPT !.fruit_steps = @ - 1] ELSE s

set_level_steps(s, steps) == [s EXCEPT !.level_steps = steps]

decrement_level_steps(s) ==
    IF s.level_steps # 0 THEN [s EXCEPT !.level_steps = @ - 1] ELSE s

\* src/game_modes.rs
set_mode_steps(s, steps) == [s EXCEPT !.mode_steps = steps]

decrement_mode_steps(s) ==
    IF s.mode_steps # 0 THEN [s EXCEPT !.mode_steps = @ - 1] ELSE s

(***************************************************************************)
(* src/game_helpers.rs: the agents together                                *)
(***************************************************************************)
\* frighten_all_ghosts without the reset of the combo.
frighten_keeping_combo(s) ==
    [s EXCEPT !.ghosts = [c \in Colors |->
                  [s.ghosts[c] EXCEPT
                      !.fright_steps = GHOST_FRIGHT_STEPS,
                      !.trapped_steps = IF is_trapped(s.ghosts[c]) THEN @ ELSE 1]]]

frighten_all_ghosts(s) ==
    [s EXCEPT !.ghost_combo = 0,
              !.ghosts = [c \in Colors |->
                  [s.ghosts[c] EXCEPT
                      !.fright_steps = GHOST_FRIGHT_STEPS,
                      !.trapped_steps = IF is_trapped(s.ghosts[c]) THEN @ ELSE 1]]]

reverse_all_ghosts(s) ==
    [s EXCEPT !.ghosts = [c \in Colors |->
                  [s.ghosts[c] EXCEPT
                      !.trapped_steps = IF is_trapped(s.ghosts[c]) THEN @ ELSE 1]]]

reset_all_ghosts(s) ==
    LET stare(g, c) ==
            [g EXCEPT !.next_loc.dir = IF c # Orange THEN "Stay" ELSE "Left"]
    IN  [s EXCEPT !.ghost_combo = 0,
                  !.ghosts = [c \in Colors |->
                      IF s.curr_lives = 0
                      THEN stare(ghost_reset(s.ghosts[c], c), c)
                      ELSE ghost_reset(s.ghosts[c], c)]]

update_all_ghosts(s) ==
    [s EXCEPT !.ghosts = [c \in Colors |-> ghost_update(s.ghosts[c])]]

\* try_respawn_pacman, were it to respawn the player without a life left.
try_respawn_pacman_without_life(s) ==
    IF is_empty(s.pacman_loc)
    THEN [s EXCEPT !.pacman_loc = PACMAN_SPAWN_LOC]
    ELSE s

try_respawn_pacman(s) ==
    IF is_empty(s.pacman_loc) /\ s.curr_lives > 0
    THEN [s EXCEPT !.pacman_loc = PACMAN_SPAWN_LOC]
    ELSE s

(***************************************************************************)
(* src/game_helpers.rs: the resets                                         *)
(***************************************************************************)
\* death_reset, were it to restore the mode whatever the pellets left.
death_reset_restoring_mode(s) ==
    LET s1 == decrement_lives([s EXCEPT !.pacman_loc = EMPTY_LOC])
        s2 == set_mode_steps([s1 EXCEPT !.mode = INIT_MODE], duration(INIT_MODE))
    IN  reset_all_ghosts(set_fruit_steps(s2, 0))

\* death_reset, were it to leave the fruit countdown running.
death_reset_keeping_fruit(s) ==
    LET s1 == decrement_lives([s EXCEPT !.pacman_loc = EMPTY_LOC])
        s2 == IF s1.num_pellets > ANGER_THRESHOLD1
              THEN set_mode_steps([s1 EXCEPT !.mode = INIT_MODE], duration(INIT_MODE))
              ELSE s1
    IN  reset_all_ghosts(s2)

death_reset(s) ==
    LET s1 == decrement_lives([s EXCEPT !.pacman_loc = EMPTY_LOC])
        s2 == IF s1.num_pellets > ANGER_THRESHOLD1
              THEN set_mode_steps([s1 EXCEPT !.mode = INIT_MODE], duration(INIT_MODE))
              ELSE s1
    IN  reset_all_ghosts(set_fruit_steps(s2, 0))

\* level_reset, were it to leave the mode and its countdown alone.
level_reset_keeping_mode(s) ==
    LET s1 == [s EXCEPT !.pacman_loc = EMPTY_LOC]
        s2 == set_fruit_steps(set_level_steps(s1, LEVEL_DURATION), 0)
    IN  reset_pellets(reset_all_ghosts(s2))

level_reset(s) ==
    LET s1 == set_mode_steps([s EXCEPT !.pacman_loc = EMPTY_LOC, !.mode = INIT_MODE],
                             duration(INIT_MODE))
        s2 == set_fruit_steps(set_level_steps(s1, LEVEL_DURATION), 0)
    IN  reset_pellets(reset_all_ghosts(s2))

(***************************************************************************)
(* The observations of a call, cleared when the next call starts.          *)
(***************************************************************************)
NoPlan ==
    [c \in Colors |->
        [outcome |-> "none", prior_dir |-> "Stay", target |-> <<0, 0>>,
         valid |-> <<>>, next_pos |-> <<0, 0>>, fright_steps |-> 0,
         chosen |-> "Stay"]]

NoColl ==
    [ran |-> FALSE, pre_combo |-> 0, pre_score |-> 0, num_ghosts_eaten |-> 0,
     did_pacman_die |-> FALSE, awards |-> <<>>, post_score |-> 0, post_combo |-> 0,
     pre_pacman_loc |-> EMPTY_LOC, pre_ghosts |-> [c \in Colors |-> GhostState_new(c)],
     num_pellets |-> 0, pre_mode |-> INIT_MODE, pre_mode_steps |-> 0,
     post_mode |-> INIT_MODE, post_mode_steps |-> 0]

NoPellet ==
    [called |-> FALSE, collected |-> "none", fruit |-> FALSE,
     level_reset |-> FALSE, anger |-> FALSE,
     combo_before |-> 0, before |-> [c \in Colors |-> GhostState_new(c)],
     prior |-> [mode |-> INIT_MODE, update_period |-> 0, curr_score |-> 0,
                curr_level |-> 0, fruit_steps |-> 0, num_pellets |-> 0,
                pellets |-> <<>>]]

(***************************************************************************)
(* src/game_helpers.rs: pellets                                            *)
(***************************************************************************)
\* The fruit awarded at every call, were its steps not set back to 0.
collect_fruit_keeping_fruit(s) ==
    IF fruit_exists(s) /\ collides_with(s.pacman_loc, s.fruit_loc)
    THEN increment_score(s, FRUIT_POINTS)
    ELSE s

\* The first statement of collect_pellet: the fruit, if the player is on it.
collect_fruit(s) ==
    IF fruit_exists(s) /\ collides_with(s.pacman_loc, s.fruit_loc)
    THEN increment_score(set_fruit_steps(s, 0), FRUIT_POINTS)
    ELSE s

\* The anger branch, were it to leave the mode alone.
get_angry_keeping_mode(s) ==
    set_update_period(s, Max(1, saturating_sub(s.update_period, 2)))

\* The anger branch of collect_pellet: the agents speed up and chase.
get_angry(s) ==
    set_mode_steps(
        [set_update_period(s, Max(1, saturating_sub(s.update_period, 2)))
            EXCEPT !.mode = "CHASE"],
        duration("CHASE"))

collect_pellet(s, pos) ==
    LET row == pos[1]
        col == pos[2]
        s1 == collect_fruit(s)
        s2 == decrement_num_pellets(
                  [s1 EXCEPT !.pellets[row + 1] = modify_bit_u32(@, col, FALSE)])
        super_pellet == is_super_pellet(<<row, col>>)
        s3 == IF super_pellet THEN frighten_all_ghosts(s2) ELSE s2
        s4 == IF super_pellet
              THEN increment_score(s3, SUPER_PELLET_POINTS)
              ELSE increment_score(s3, PELLET_POINTS)
        num_pellets == s4.num_pellets
        s5 == IF ~fruit_exists(s4)
                 /\ (num_pellets = FRUIT_THRESHOLD1 \/ num_pellets = FRUIT_THRESHOLD2)
              THEN set_fruit_steps(s4, FRUIT_DURATION)
              ELSE s4
        anger == num_pellets = ANGER_THRESHOLD1 \/ num_pellets = ANGER_THRESHOLD2
        s6 == IF anger
              THEN get_angry(s5)
              ELSE IF num_pellets = 0
              THEN increment_level(level_reset(s5))
              ELSE s5
        log == [called |-> TRUE, collected |-> "none",
                fruit |-> s1.curr_score # s.curr_score \/ s1.fruit_steps # s.fruit_steps,
                level_reset |-> FALSE, anger |-> FALSE,
                combo_before |-> s.ghost_combo, before |-> s.ghosts,
                prior |-> [mode |-> s.mode, update_period |-> s.update_period,
                           curr_score |-> s.curr_score, curr_level |-> s.curr_level,
                           fruit_steps |-> s.fruit_steps,
                           num_pellets |-> s.num_pellets, pellets |-> s.pellets]]
    IN  IF ~pellet_at(s1, pos)
        THEN [s1 EXCEPT !.pellet_log = log]
        ELSE [s6 EXCEPT !.pellet_log =
                 [log EXCEPT !.collected = IF super_pellet THEN "super" ELSE "pellet",
                             !.level_reset = ~anger /\ num_pellets = 0,
                             !.anger = anger]]

(***************************************************************************)
(* src/game_helpers.rs: collisions                                         *)
(***************************************************************************)
\* The points of an agent eaten, were they the same whatever the combo.
combo_points_flat(combo) == COMBO_MULTIPLIER

\* COMBO_MULTIPLIER << self.ghost_combo, in 16 bits.
combo_points(combo) == (COMBO_MULTIPLIER * (2 ^ combo)) % (U16_MAX + 1)

\* The loop of check_collisions from colour c on, were it to go on after an
\* agent that kills the player.
collision_scan_through(s, c, num_ghosts_eaten) ==
    LET met == {k \in c..Orange :
                   collides_with(s.pacman_loc, s.ghosts[k].loc) /\ ~s.ghosts[k].eaten}
        meals == {k \in met : is_frightened(s.ghosts[k])}
    IN  [s |-> [s EXCEPT !.ghosts = [k \in Colors |->
                    IF k \in meals THEN ghost_respawn(s.ghosts[k], k) ELSE s.ghosts[k]]],
         num_ghosts_eaten |-> num_ghosts_eaten + Cardinality(meals),
         did_pacman_die |-> met # meals]

\* The loop of check_collisions over the agents from colour c on: the state,
\* the number of agents eaten and whether the player died.
RECURSIVE collision_scan(_, _, _)
collision_scan(s, c, num_ghosts_eaten) ==
    IF c > Orange
    THEN [s |-> s, num_ghosts_eaten |-> num_ghosts_eaten, did_pacman_die |-> FALSE]
    ELSE IF ~collides_with(s.pacman_loc, s.ghosts[c].loc) \/ s.ghosts[c].eaten
    THEN collision_scan(s, c + 1, num_ghosts_eaten)
    ELSE IF is_frightened(s.ghosts[c])
    THEN collision_scan([s EXCEPT !.ghosts[c] = ghost_respawn(@, c)],
                        c + 1, num_ghosts_eaten + 1)
    ELSE [s |-> s, num_ghosts_eaten |-> num_ghosts_eaten, did_pacman_die |-> TRUE]

\* The loop that awards the points of the agents eaten: n more iterations.
RECURSIVE award_loop(_, _)
award_loop(s, n) ==
    IF n = 0 THEN s
    ELSE award_loop(
             [increment_score(s, combo_points(s.ghost_combo))
                 EXCEPT !.ghost_combo = @ + 1,
                        !.coll_log.awards = Append(@, combo_points(s.ghost_combo))],
             n - 1)

\* The awards of a pass, were the combo to start from 0 in every pass.
award_combo_per_pass(s, n) == award_loop([s EXCEPT !.ghost_combo = 0], n)

\* The else branch of check_collisions: the awards of the n agents eaten.
award_combo(s, n) == award_loop(s, n)

\* check_collisions, were a lethal contact to leave the player where it is.
check_collisions_sparing(s) ==
    LET scan == collision_scan(s, Red, 0)
        log == [ran |-> TRUE, pre_combo |-> s.ghost_combo, pre_score |-> s.curr_score,
                num_ghosts_eaten |-> scan.num_ghosts_eaten,
                did_pacman_die |-> scan.did_pacman_die,
                awards |-> <<>>, post_score |-> 0, post_combo |-> 0,
                pre_pacman_loc |-> s.pacman_loc, pre_ghosts |-> s.ghosts,
                num_pellets |-> s.num_pellets, pre_mode |-> s.mode,
                pre_mode_steps |-> s.mode_steps,
                post_mode |-> s.mode, post_mode_steps |-> s.mode_steps]
        s2 == award_combo([scan.s EXCEPT !.coll_log = log], scan.num_ghosts_eaten)
    IN  [s2 EXCEPT !.coll_log.post_score = s2.curr_score,
                   !.coll_log.post_combo = s2.ghost_combo]

check_collisions(s) ==
    LET scan == collision_scan(s, Red, 0)
        log == [ran |-> TRUE, pre_combo |-> s.ghost_combo, pre_score |-> s.curr_score,
                num_ghosts_eaten |-> scan.num_ghosts_eaten,
                did_pacman_die |-> scan.did_pacman_die,
                awards |-> <<>>, post_score |-> 0, post_combo |-> 0,
                pre_pacman_loc |-> s.pacman_loc, pre_ghosts |-> s.ghosts,
                num_pellets |-> s.num_pellets, pre_mode |-> s.mode,
                pre_mode_steps |-> s.mode_steps,
                post_mode |-> s.mode, post_mode_steps |-> s.mode_steps]
        s1 == [scan.s EXCEPT !.coll_log = log]
        s2 == IF scan.did_pacman_die
              THEN death_reset(s1)
              ELSE award_combo(s1, scan.num_ghosts_eaten)
    IN  [s2 EXCEPT !.coll_log.post_score = s2.curr_score,
                   !.coll_log.post_combo = s2.ghost_combo,
                   !.coll_log.post_mode = s2.mode,
                   !.coll_log.post_mode_steps = s2.mode_steps]

(***************************************************************************)
(* src/game_helpers.rs: the player's move                                  *)
(***************************************************************************)
\* move_pacman_dir without the test for a wall.
move_pacman_dir_through_walls(s, dir) ==
    LET s1 == check_collisions(s)
        next_loc == get_neighbor_coords(s1.pacman_loc, dir)
        s2 == [s1 EXCEPT !.pacman_loc.dir = dir]
    IN  collect_pellet([s2 EXCEPT !.pacman_loc = update_coords(@, next_loc)], next_loc)

move_pacman_dir(s, dir) ==
    LET s1 == check_collisions(s)
        next_loc == get_neighbor_coords(s1.pacman_loc, dir)
        s2 == [s1 EXCEPT !.pacman_loc.dir = dir]
    IN  IF wall_at(next_loc)
        THEN s2
        ELSE collect_pellet([s2 EXCEPT !.pacman_loc = update_coords(@, next_loc)],
                            next_loc)

(***************************************************************************)
(* src/game_helpers.rs: the chase targets                                  *)
(***************************************************************************)
get_chase_target_red(s) == get_coords(s.pacman_loc)

get_chase_target_pink(s) == get_ahead_coords(s.pacman_loc, 4)

\* Cyan's target, were the pivot the player's own cell.
get_chase_target_cyan_about_player(s) ==
    LET pivot == get_coords(s.pacman_loc)
        red == get_coords(s.ghosts[Red].loc)
    IN  <<2 * pivot[1] - red[1], 2 * pivot[2] - red[2]>>

get_chase_target_cyan(s) ==
    LET pivot == get_ahead_coords(s.pacman_loc, 2)
        red == get_coords(s.ghosts[Red].loc)
    IN  <<2 * pivot[1] - red[1], 2 * pivot[2] - red[2]>>

\* Orange's target, were the distance compared with > instead of >=.
get_chase_target_orange_beyond(s) ==
    LET pacman_pos == get_coords(s.pacman_loc)
        orange_pos == get_coords(s.ghosts[Orange].loc)
    IN  IF dist_sq(orange_pos, pacman_pos) > 64
        THEN pacman_pos
        ELSE get_coords(GHOST_SCATTER_TARGETS[Orange + 1])

get_chase_target_orange(s) ==
    LET pacman_pos == get_coords(s.pacman_loc)
        orange_pos == get_coords(s.ghosts[Orange].loc)
    IN  IF dist_sq(orange_pos, pacman_pos) >= 64
        THEN pacman_pos
        ELSE get_coords(GHOST_SCATTER_TARGETS[Orange + 1])

get_chase_target(s, color) ==
    CASE color = Red -> get_chase_target_red(s)
      [] color = Pink -> get_chase_target_pink(s)
      [] color = Cyan -> get_chase_target_cyan(s)
      [] OTHER -> get_chase_target_orange(s)

(***************************************************************************)
(* src/game_helpers.rs: planning                                           *)
(***************************************************************************)
\* The filter of valid_moves without its first test.
valid_move_reversing(s, c, dir) ==
    LET loc == get_neighbor_coords(s.ghosts[c].next_loc, dir)
    IN  IF s.ghosts[c].spawning
           /\ (ghost_spawn_at(loc) \/ loc = GHOST_HOUSE_EXIT_POS)
        THEN TRUE
        ELSE ~wall_at(loc)

\* The filter of valid_moves: whether the agent of colour c, its planned
\* position advanced already, may turn to dir there.
valid_move(s, c, dir) ==
    LET loc == get_neighbor_coords(s.ghosts[c].next_loc, dir)
    IN  IF dir = opposite(s.ghosts[c].next_loc.dir)
        THEN FALSE
        ELSE IF s.ghosts[c].spawning
                /\ (ghost_spawn_at(loc) \/ loc = GHOST_HOUSE_EXIT_POS)
        THEN TRUE
        ELSE ~wall_at(loc)

\* The move nearest to the target, were the last of several nearest taken.
min_by_key_last(s, c, valid, target_loc) ==
    LET key(i) == dist_sq(get_neighbor_coords(s.ghosts[c].next_loc, valid[i]), target_loc)
        best == CHOOSE i \in 1..Len(valid) :
                    \A j \in 1..Len(valid) :
                        key(i) < key(j) \/ (key(i) = key(j) /\ i >= j)
    IN  valid[best]

\* valid_moves.min_by_key(dist_sq(loc, target_loc)): the first of the moves
\* nearest to the target.
min_by_key(s, c, valid, target_loc) ==
    LET key(i) == dist_sq(get_neighbor_coords(s.ghosts[c].next_loc, valid[i]), target_loc)
        best == CHOOSE i \in 1..Len(valid) :
                    \A j \in 1..Len(valid) :
                        key(i) < key(j) \/ (key(i) = key(j) /\ i <= j)
    IN  valid[best]

\* The target of the agent of colour c, its planned position advanced already.
plan_target(s, c, chase_target) ==
    IF /\ s.ghosts[c].spawning
       /\ ~collides_with(s.ghosts[c].loc, GHOST_SPAWN_LOCS[Red + 1])
       /\ ~collides_with(s.ghosts[c].next_loc, GHOST_SPAWN_LOCS[Red + 1])
    THEN get_coords(GHOST_SPAWN_LOCS[Red + 1])
    ELSE IF s.mode = "CHASE"
    THEN chase_target
    ELSE get_coords(GHOST_SCATTER_TARGETS[c + 1])

\* The loop of plan_all_ghosts from colour c on.  The early returns of the
\* loop body leave the function: the agents after c are not planned.
RECURSIVE plan_from(_, _)
plan_from(s, c) ==
    IF c > Orange THEN s
    ELSE
    LET chase_target == get_chase_target(s, c)
        next0 == advance_from(s.ghosts[c].loc)
        s1 == [s EXCEPT !.ghosts[c].next_loc = next0]
        target_loc == plan_target(s1, c, chase_target)
        valid == SelectSeq(all_except_stay, LAMBDA dir : valid_move(s1, c, dir))
        random == s1.ghosts[c].fright_steps > 1
        s2 == IF random THEN [s1 EXCEPT !.seed = rng_gen(s1.seed)] ELSE s1
        chosen == IF random
                  THEN valid[rng_choose(s1.seed, Len(valid))]
                  ELSE min_by_key(s1, c, valid, target_loc)
        log == [outcome |-> "chosen", prior_dir |-> s.ghosts[c].loc.dir,
                target |-> target_loc, valid |-> valid,
                next_pos |-> get_coords(next0),
                fright_steps |-> s1.ghosts[c].fright_steps, chosen |-> "Stay"]
    IN  IF is_empty(s.ghosts[c].loc)
        THEN [s EXCEPT !.plan_log[c].outcome = "empty"]
        ELSE IF is_trapped(s1.ghosts[c])
        THEN [s1 EXCEPT !.ghosts[c].next_loc.dir = opposite(next0.dir),
                        !.ghosts[c].trapped_steps = @ - 1,
                        !.plan_log[c].outcome = "trapped"]
        ELSE IF valid = <<>>
        THEN [s2 EXCEPT !.panic = "ghost has no valid moves!",
                        !.plan_log[c] = [log EXCEPT !.outcome = "no valid moves"]]
        ELSE plan_from([s2 EXCEPT !.ghosts[c].next_loc.dir = chosen,
                                  !.plan_log[c] = [log EXCEPT !.chosen = chosen]],
                       c + 1)

\* plan_all_ghosts, were every planning pass to draw from the generator.
plan_all_ghosts_drawing(s) ==
    LET planned == plan_from([s EXCEPT !.plan_log =
                        [c \in Colors |-> [NoPlan[c] EXCEPT !.outcome = "not reached"]]],
                             Red)
    IN  [planned EXCEPT !.seed = rng_gen(s.seed)]

plan_all_ghosts(s) ==
    plan_from([s EXCEPT !.plan_log =
                  [c \in Colors |-> [NoPlan[c] EXCEPT !.outcome = "not reached"]]],
              Red)

(***************************************************************************)
(* src/game_state.rs: the step                                             *)
(***************************************************************************)
\* The step events, were the countdown at a flip set to the duration of the
\* mode that ends.
handle_step_events_old_duration(s) ==
    LET s1 == IF s.mode_steps = 0
              THEN reverse_all_ghosts(
                       IF s.mode = "CHASE"
                       THEN set_mode_steps([s EXCEPT !.mode = "SCATTER"], duration("CHASE"))
                       ELSE set_mode_steps([s EXCEPT !.mode = "CHASE"], duration("SCATTER")))
              ELSE s
        s2 == IF s1.level_steps = 0
              THEN set_level_steps(
                       set_update_period(s1, Max(1, saturating_sub(s1.update_period, 2))),
                       LEVEL_PENALTY_DURATION)
              ELSE s1
        s3 == IF s2.num_pellets >= ANGER_THRESHOLD1 THEN decrement_mode_steps(s2) ELSE s2
    IN  decrement_fruit_steps(decrement_level_steps(s3))

\* The step events, were the countdown of the mode to run with any number of
\* pellets.
handle_step_events_always_counting(s) ==
    LET s1 == IF s.mode_steps = 0
              THEN reverse_all_ghosts(
                       IF s.mode = "CHASE"
                       THEN set_mode_steps([s EXCEPT !.mode = "SCATTER"], duration("SCATTER"))
                       ELSE set_mode_steps([s EXCEPT !.mode = "CHASE"], duration("CHASE")))
              ELSE s
        s2 == IF s1.level_steps = 0
              THEN set_level_steps(
                       set_update_period(s1, Max(1, saturating_sub(s1.update_period, 2))),
                       LEVEL_PENALTY_DURATION)
              ELSE s1
    IN  decrement_fruit_steps(decrement_level_steps(decrement_mode_steps(s2)))

\* The step events, were the countdown of the level set to its first length
\* again after a penalty.
handle_step_events_long_reload(s) ==
    LET s1 == IF s.mode_steps = 0
              THEN reverse_all_ghosts(
                       IF s.mode = "CHASE"
                       THEN set_mode_steps([s EXCEPT !.mode = "SCATTER"], duration("SCATTER"))
                       ELSE set_mode_steps([s EXCEPT !.mode = "CHASE"], duration("CHASE")))
              ELSE s
        s2 == IF s1.level_steps = 0
              THEN set_level_steps(
                       set_update_period(s1, Max(1, saturating_sub(s1.update_period, 2))),
                       LEVEL_DURATION)
              ELSE s1
        s3 == IF s2.num_pellets >= ANGER_THRESHOLD1 THEN decrement_mode_steps(s2) ELSE s2
    IN  decrement_fruit_steps(decrement_level_steps(s3))

handle_step_events(s) ==
    LET s1 == IF s.mode_steps = 0
              THEN reverse_all_ghosts(
                       IF s.mode = "CHASE"
                       THEN set_mode_steps([s EXCEPT !.mode = "SCATTER"], duration("SCATTER"))
                       ELSE set_mode_steps([s EXCEPT !.mode = "CHASE"], duration("CHASE")))
              ELSE s
        s2 == IF s1.level_steps = 0
              THEN set_level_steps(
                       set_update_period(s1, Max(1, saturating_sub(s1.update_period, 2))),
                       LEVEL_PENALTY_DURATION)
              ELSE s1
        s3 == IF s2.num_pellets >= ANGER_THRESHOLD1 THEN decrement_mode_steps(s2) ELSE s2
    IN  decrement_fruit_steps(decrement_level_steps(s3))

next_tick(s) == [s EXCEPT !.curr_ticks = @ + 1]

\* The first conditional phase of step.
step_update(s) ==
    handle_step_events(check_collisions(try_respawn_pacman(update_all_ghosts(s))))

\* GameState::step
step(s) ==
    LET lives_before == s.curr_lives
        s1 == next_tick(s)
        s2 == IF update_ready(s1) THEN step_update(s1) ELSE s1
        s3 == IF update_ready(s2) THEN plan_all_ghosts(s2) ELSE s2
    IN  IF s3.panic # "none" THEN s3
        ELSE IF s3.curr_lives < lives_before THEN [s3 EXCEPT !.paused = TRUE]
        ELSE s3

\* Which phases of step ran, for the observer.
step_phases(s) ==
    LET s1 == next_tick(s)
        s2 == IF update_ready(s1) THEN step_update(s1) ELSE s1
    IN  [updated |-> update_ready(s1), replanned |-> update_ready(s2)]

(***************************************************************************)
(* src/game_state.rs: construction                                         *)
(***************************************************************************)
new_with_seed(seed) ==
    [curr_ticks |-> 0,
     update_period |-> INIT_UPDATE_PERIOD,
     mode |-> INIT_MODE,
     paused |-> TRUE,
     mode_steps |-> duration(INIT_MODE),
     level_steps |-> LEVEL_DURATION,
     curr_score |-> 0,
     curr_level |-> INIT_LEVEL,
     curr_lives |-> INIT_LIVES,
     pacman_loc |-> PACMAN_SPAWN_LOC,
     fruit_loc |-> FRUIT_SPAWN_LOC,
     fruit_steps |-> 0,
     ghosts |-> [c \in Colors |-> GhostState_new(c)],
     ghost_combo |-> 0,
     pellets |-> INIT_PELLETS,
     num_pellets |-> INIT_PELLET_COUNT,
     seed |-> seed]

(***************************************************************************)
(* A call loads the game state into the record the operators thread, with  *)
(* the observations cleared; what it stores back is the struct's fields.   *)
(***************************************************************************)
Running(g) ==
    g @@ [panic |-> "none", plan_log |-> NoPlan, coll_log |-> NoColl,
          pellet_log |-> NoPellet]

GameStateOf(s) == [f \in DOMAIN new_with_seed(0) |-> s[f]]

(***************************************************************************)
(* src/game_state.rs: set_pacman_location and its breadth-first search.    *)
(* visited maps a position to the directions that lead to it from the      *)
(* start, which is what the walk back over the previous positions yields;  *)
(* the start is in it from the beginning and is never taken as a next      *)
(* position.  The result is the directions of the path, which are all that *)
(* set_pacman_location reads of it.  Loops are written by halves: the      *)
(* first half of the iterations, then the rest.                            *)
(***************************************************************************)
\* The body of `for dir in Direction::all_except_stay()` for the position pos.
bfs_visit(search, pos, dir, end) ==
    LET next == <<pos[1] + vector(dir)[1], pos[2] + vector(dir)[2]>>
    IN  IF search.found \/ wall_at(next) \/ next \in DOMAIN search.visited
        THEN search
        ELSE IF next = end
        THEN [search EXCEPT !.found = TRUE, !.path = search.visited[pos] \o <<dir>>]
        ELSE [search EXCEPT !.queue = Append(@, next),
                            !.visited = @ @@ (next :> (search.visited[pos] \o <<dir>>))]

\* The body of `while let Some(pos) = queue.pop_front()`.
bfs_pop(search, end) ==
    LET pos == Head(search.queue)
        popped == [search EXCEPT !.queue = Tail(@)]
        up == bfs_visit(popped, pos, all_except_stay[1], end)
        left == bfs_visit(up, pos, all_except_stay[2], end)
        down == bfs_visit(left, pos, all_except_stay[3], end)
    IN  bfs_visit(down, pos, all_except_stay[4], end)

\* Up to n iterations of the while loop, which ends when the end is found
\* or the queue is empty.
RECURSIVE bfs_pops(_, _, _)
bfs_pops(n, search, end) ==
    IF search.found \/ search.queue = <<>> THEN search
    ELSE IF n = 1 THEN bfs_pop(search, end)
    ELSE LET half == bfs_pops(n \div 2, search, end)
         IN  IF half.found \/ half.queue = <<>> THEN half
             ELSE bfs_pops(n - n \div 2, half, end)

\* No position is popped twice, and the positions are pairs of i8.
bfs(start, end) ==
    LET search == bfs_pops(256 * 256,
                           [queue |-> <<start>>, visited |-> (start :> <<>>),
                            found |-> FALSE, path |-> <<>>],
                           end)
    IN  [found |-> search.found, path |-> search.path]

\* `for LocationState { dir, .. } in likely_path { self.move_pacman_dir(dir) }`
RECURSIVE move_along(_, _)
move_along(s, path) ==
    IF path = <<>> \/ s.panic # "none" THEN s
    ELSE IF Len(path) = 1 THEN move_pacman_dir(s, path[1])
    ELSE LET half == move_along(s, SubSeq(path, 1, Len(path) \div 2))
         IN  IF half.panic # "none" THEN half
             ELSE move_along(half, SubSeq(path, Len(path) \div 2 + 1, Len(path)))

\* set_pacman_location, were it to take the player to a wall it is told.
set_pacman_location_unchecked(s, location) ==
    LET likely_path == bfs(<<s.pacman_loc.row, s.pacman_loc.col>>, location)
    IN  IF likely_path.found
        THEN check_collisions(collect_pellet(move_along(s, likely_path.path), location))
        ELSE check_collisions(collect_pellet(
                 [s EXCEPT !.pacman_loc = update_coords(@, location)], location))

\* GameState::set_pacman_location
set_pacman_location(s, location) ==
    IF ~in_bounds(location) \/ wall_at(location) THEN s
    ELSE
    LET likely_path == bfs(<<s.pacman_loc.row, s.pacman_loc.col>>, location)
    IN  IF likely_path.found
        THEN check_collisions(collect_pellet(move_along(s, likely_path.path), location))
        ELSE s

(***************************************************************************)
(* The wire codec: src/game_state.rs to_bytes and from_bytes, with the     *)
(* auxiliary byte of src/ghost_state.rs.  A buffer is a sequence of bytes. *)
(***************************************************************************)
u16_to_be_bytes(x) == <<x \div 256, x % 256>>

u32_to_be_bytes(x) ==
    <<x \div 16777216, (x \div 65536) % 256, (x \div 256) % 256, x % 256>>

u16_from_be_bytes(bytes, at) == bytes[at] * 256 + bytes[at + 1]

u32_from_be_bytes(bytes, at) ==
    bytes[at] * 16777216 + bytes[at + 1] * 65536 + bytes[at + 2] * 256 + bytes[at + 3]

\* The two-bit two's complement of one component of a direction vector.
delta_bits(d) == (d + 4) % 4

\* LocationState::to_bytes is not in the sources; the packing is the one the
\* wire format states: per axis, 6 bits of coordinate under 2 bits of
\* direction delta.
location_to_bytes(loc) ==
    <<delta_bits(vector(loc.dir)[1]) * 64 + (loc.row % 64),
      delta_bits(vector(loc.dir)[2]) * 64 + (loc.col % 64)>>

\* LocationState::from_bytes, the inverse packing; it fails on delta bits
\* that are the vector of no direction.
location_from_bytes(b) ==
    LET bits == <<b[1] \div 64, b[2] \div 64>>
        dirs == {d \in Directions :
                    <<delta_bits(vector(d)[1]), delta_bits(vector(d)[2])>> = bits}
    IN  IF dirs = {}
        THEN [ok |-> FALSE, loc |-> EMPTY_LOC]
        ELSE [ok |-> TRUE,
              loc |-> [row |-> b[1] % 64, col |-> b[2] % 64,
                       dir |-> CHOOSE d \in dirs : TRUE]]

get_aux(g) == (g.fright_steps % 64) + (IF g.spawning THEN 128 ELSE 0)

update_aux(g, aux_info) ==
    [g EXCEPT !.fright_steps = aux_info % 64,
              !.spawning = (aux_info \div 128) # 0]

update_aux2(g, aux2) ==
    [g EXCEPT !.trapped_steps = aux2 % 64,
              !.eaten = (aux2 \div 128) # 0]

\* GhostState::from_bytes; from_bytes of the game state passes no second
\* auxiliary byte, which leaves trapped_steps 0 and eaten false.
GhostState_from_bytes(color, location, aux, aux2) ==
    update_aux2(
        update_aux([loc |-> location, next_loc |-> location, trapped_steps |-> 0,
                    fright_steps |-> 0, spawning |-> FALSE, eaten |-> FALSE],
                   aux),
        aux2)

SNAPSHOT_LEN == 152

mode_byte(s) ==
    IF s.paused THEN 0 ELSE IF s.mode = "SCATTER" THEN 1 ELSE 2

mode_duration_byte(s) ==
    IF s.paused THEN U8_MAX ELSE duration(s.mode)

RECURSIVE ghost_bytes(_, _)
ghost_bytes(s, c) ==
    IF c > Orange THEN <<>>
    ELSE location_to_bytes(s.ghosts[c].loc) \o <<get_aux(s.ghosts[c])>>
         \o ghost_bytes(s, c + 1)

RECURSIVE pellet_bytes(_, _)
pellet_bytes(s, row) ==
    IF row > MAZE_ROWS THEN <<>>
    ELSE u32_to_be_bytes(s.pellets[row]) \o pellet_bytes(s, row + 1)

\* GameState::to_bytes
to_bytes(s) ==
    u16_to_be_bytes(s.curr_ticks % (U16_MAX + 1))
    \o <<s.update_period, mode_byte(s), s.mode_steps, mode_duration_byte(s)>>
    \o u16_to_be_bytes(s.curr_score)
    \o <<s.curr_level, s.curr_lives>>
    \o ghost_bytes(s, Red)
    \o location_to_bytes(s.pacman_loc)
    \o location_to_bytes(s.fruit_loc)
    \o <<s.fruit_steps, FRUIT_DURATION>>
    \o pellet_bytes(s, 1)

\* The offsets (from 1) of the fields from_bytes reads in order.
MODE_AT == 4
GHOSTS_AT == 11
PACMAN_AT == 23
FRUIT_AT == 25
PELLETS_AT == 29

\* The rows of the maze use the bits under MAZE_COLS; a row word of the model
\* is below 2^31.
count_ones(x) == Cardinality({b \in 0..30 : get_bit_u32(x, b)})

RECURSIVE sum_ones(_, _)
sum_ones(pellets, row) ==
    IF row > MAZE_ROWS THEN 0
    ELSE IF pellets[row] = 0 THEN sum_ones(pellets, row + 1)
    ELSE count_ones(pellets[row]) + sum_ones(pellets, row + 1)

\* What from_bytes builds once every read that can fail has succeeded.
decoded_state(bytes, seed) ==
    LET m == bytes[MODE_AT]
        ghost_at(c) == GHOSTS_AT + 3 * c
        pellets == [r \in 1..MAZE_ROWS |->
                        \* get_u32(..).unwrap_or(0)
                        IF PELLETS_AT + 4 * r - 1 <= Len(bytes)
                        THEN u32_from_be_bytes(bytes, PELLETS_AT + 4 * (r - 1))
                        ELSE 0]
    IN  [curr_ticks |-> u16_from_be_bytes(bytes, 1),
         update_period |-> bytes[3],
         mode |-> IF m = 1 THEN "SCATTER" ELSE "CHASE",
         paused |-> (m = 0),
         mode_steps |-> bytes[5],
         level_steps |-> 0,
         curr_score |-> u16_from_be_bytes(bytes, 7),
         curr_level |-> bytes[9],
         curr_lives |-> bytes[10],
         pacman_loc |-> location_from_bytes(SubSeq(bytes, PACMAN_AT, PACMAN_AT + 1)).loc,
         fruit_loc |-> location_from_bytes(SubSeq(bytes, FRUIT_AT, FRUIT_AT + 1)).loc,
         fruit_steps |-> bytes[FRUIT_AT + 2],
         ghosts |-> [c \in Colors |->
                        GhostState_from_bytes(
                            c,
                            location_from_bytes(
                                SubSeq(bytes, ghost_at(c), ghost_at(c) + 1)).loc,
                            bytes[ghost_at(c) + 2],
                            0)],
         ghost_combo |-> 0,
         pellets |-> pellets,
         num_pellets |-> sum_ones(pellets, 1) % (U16_MAX + 1),
         seed |-> seed]

\* GameState::from_bytes: the result is "ok" with the state built, "io error"
\* (the Err the caller receives), or "panic" when the process aborts.
from_bytes(bytes, seed) ==
    LET failed(result, panic_message) ==
            [result |-> result, panic |-> panic_message, state |-> new_with_seed(seed)]
        locations_ok ==
            \A at \in {GHOSTS_AT + 3 * c : c \in Colors} \cup {PACMAN_AT, FRUIT_AT} :
                location_from_bytes(SubSeq(bytes, at, at + 1)).ok
        s == plan_all_ghosts(Running(decoded_state(bytes, seed)))
    IN  IF Len(bytes) < MODE_AT THEN failed("io error", "none")
        ELSE IF bytes[MODE_AT] \notin {0, 1, 2}
        THEN failed("panic", "internal error: entered unreachable code")
        ELSE IF Len(bytes) < PELLETS_AT - 1 THEN failed("io error", "none")
        ELSE IF ~locations_ok THEN failed("io error", "none")
        ELSE IF s.panic # "none" THEN failed("panic", s.panic)
        ELSE [result |-> "ok", panic |-> "none", state |-> GameStateOf(s)]

(***************************************************************************)
(* The state machine.  Each action is one call of the library: it runs the *)
(* whole function on the current game state and stores what it leaves.     *)
(***************************************************************************)
Store(s) ==
    /\ gs' = GameStateOf(s)
    /\ panic' = s.panic
    /\ plan_log' = s.plan_log
    /\ coll_log' = s.coll_log
    /\ pellet_log' = s.pellet_log

Call(name, dir, phases) ==
    [name |-> name, dir |-> dir, updated |-> phases.updated,
     replanned |-> phases.replanned]

NoPhases == [updated |-> FALSE, replanned |-> FALSE]

NoDecode ==
    [result |-> "none", len |-> 0, mode_byte |-> 0, state |-> new_with_seed(0)]

NoQuery == [name |-> "none"]

\* The seeds the games of the model start from.
InitSeeds == {(k * 21001) % SeedSpace : k \in 1..NumSeeds}

Constructed(g, opening, step_budget, move_budget) ==
    /\ gs = g
    /\ panic = "none"
    /\ op = Call("new", "Stay", NoPhases)
    /\ plan_log = NoPlan
    /\ coll_log = NoColl
    /\ pellet_log = NoPellet
    /\ engine_paused = TRUE
    /\ decoded = NoDecode
    /\ query = NoQuery
    /\ script = opening
    /\ steps_left = step_budget
    /\ moves_left = move_budget

Init == \E seed \in InitSeeds : Constructed(new_with_seed(seed), <<>>, MaxSteps, MaxMoves)

\* One call of step().
CallStep ==
    /\ Store(step(Running(gs)))
    /\ op' = Call("step", "Stay", step_phases(Running(gs)))
    /\ decoded' = NoDecode
    /\ query' = NoQuery
    /\ UNCHANGED engine_paused

\* One call of move_pacman_dir(dir).
CallMovePacmanDir(dir) ==
    /\ Store(move_pacman_dir(Running(gs), dir))
    /\ op' = Call("move_pacman_dir", dir, NoPhases)
    /\ decoded' = NoDecode
    /\ query' = NoQuery
    /\ UNCHANGED engine_paused

\* The clock calls step().
Step ==
    /\ panic = "none"
    /\ script = <<>>
    /\ steps_left > 0
    /\ CallStep
    /\ steps_left' = steps_left - 1
    /\ UNCHANGED <<script, moves_left>>

\* The client calls move_pacman_dir(dir).
MovePacmanDir ==
    \E dir \in Directions :
        /\ panic = "none"
        /\ script = <<>>
        /\ moves_left > 0
        /\ CallMovePacmanDir(dir)
        /\ moves_left' = moves_left - 1
        /\ UNCHANGED <<script, steps_left>>

Next == Step \/ MovePacmanDir

Spec == Init /\ [][Next]_vars

(***************************************************************************)
(* Games that open with a script: the calls of the script in order, then   *)
(* the clock and the client freely for the budgets left.  The client may   *)
(* send any number of moves between two ticks.                             *)
(***************************************************************************)
\* The script once its first call is made.
Rest(sc) ==
    IF sc[1][2] = 1 THEN Tail(sc) ELSE <<<<sc[1][1], sc[1][2] - 1>>>> \o Tail(sc)

ScriptedStep ==
    /\ panic = "none"
    /\ script # <<>>
    /\ script[1][1] = "step"
    /\ CallStep
    /\ script' = Rest(script)
    /\ UNCHANGED <<steps_left, moves_left>>

ScriptedMove ==
    /\ panic = "none"
    /\ script # <<>>
    /\ script[1][1] \in Directions
    /\ CallMovePacmanDir(script[1][1])
    /\ script' = Rest(script)
    /\ UNCHANGED <<steps_left, moves_left>>

NextScripted == ScriptedStep \/ ScriptedMove \/ Step \/ MovePacmanDir

\* The endgame: before the first tick the player eats all but 19 pellets,
\* none of them a super pellet; then, three times, the player walks from where
\* an update put it into the red agent at its spawn cell and moves once more.
EndgameScript ==
    << <<"Left", 1>>, <<"Up", 3>>, <<"Left", 6>>, <<"Up", 19>>,
       <<"Left", 5>>, <<"Down", 1>>, <<"Up", 1>>, <<"Right", 11>>,
       <<"Down", 4>>, <<"Left", 11>>, <<"Up", 1>>, <<"Down", 4>>,
       <<"Right", 5>>, <<"Up", 3>>, <<"Right", 3>>, <<"Down", 3>>,
       <<"Right", 3>>, <<"Down", 3>>, <<"Right", 3>>, <<"Up", 3>>,
       <<"Right", 3>>, <<"Up", 3>>, <<"Left", 3>>, <<"Up", 4>>,
       <<"Right", 6>>, <<"Down", 4>>, <<"Left", 2>>, <<"Right", 2>>,
       <<"Down", 15>>, <<"Left", 6>>, <<"Down", 3>>, <<"Right", 3>>,
       <<"Down", 3>>, <<"Left", 3>>, <<"Down", 3>>, <<"Left", 3>>,
       <<"Up", 3>>, <<"Left", 3>>, <<"Up", 3>>, <<"Left", 3>>, <<"Up", 3>>,
       <<"Left", 5>>, <<"Down", 2>>, <<"Up", 2>>, <<"Right", 5>>,
       <<"Down", 6>>, <<"Left", 3>>, <<"Up", 3>>, <<"Left", 1>>,
       <<"Right", 1>>, <<"Down", 3>>, <<"Left", 2>>, <<"Down", 3>>,
       <<"Right", 25>>, <<"Up", 3>>, <<"Left", 2>>, <<"Up", 3>>,
       <<"Right", 1>>, <<"Left", 1>>, <<"Down", 3>>, <<"Left", 3>>,
       <<"Up", 6>>, <<"Right", 5>>, <<"Down", 2>>, <<"Up", 2>>,
       <<"Left", 5>>, <<"Down", 3>>, <<"Left", 11>>, <<"Right", 5>>,
       <<"Up", 3>>, <<"Right", 3>>, <<"Up", 6>>, <<"Right", 3>>, <<"Up", 6>>,
       <<"Right", 5>>, <<"Up", 1>>, <<"step", 10>>, <<"Up", 2>>,
       <<"Left", 8>>, <<"Down", 3>>, <<"Left", 3>>, <<"Down", 3>>,
       <<"Left", 2>>, <<"Stay", 1>>, <<"step", 10>>, <<"Left", 1>>,
       <<"Up", 3>>, <<"Left", 3>>, <<"Up", 9>>, <<"Right", 4>>,
       <<"Stay", 1>>, <<"step", 10>>, <<"Left", 1>>, <<"Up", 3>>,
       <<"Left", 3>>, <<"Up", 9>>, <<"Right", 4>>, <<"Stay", 1>> >>

MaxEndgameSteps == 22
MaxEndgameMoves == 1

InitEndgame ==
    \E seed \in InitSeeds :
        Constructed(new_with_seed(seed), EndgameScript, MaxEndgameSteps, MaxEndgameMoves)

SpecEndgame == InitEndgame /\ [][NextScripted]_vars

\* The hunt: the player waits at (22,12) until the pink and the orange agent
\* share the cell (17,12), eats the super pellet at (23,1), walks into the two
\* and moves once more; after one tick it walks into the red agent and moves
\* once more, eats the super pellet at (23,26), and then every other pellet,
\* the super pellet at (3,26) last.
HuntScript ==
    << <<"Left", 1>>, <<"Up", 1>>, <<"step", 1020>>, <<"Up", 2>>,
       <<"Left", 11>>, <<"Down", 3>>, <<"Up", 3>>, <<"Right", 8>>,
       <<"Up", 3>>, <<"Right", 3>>, <<"Stay", 1>>, <<"step", 1>>,
       <<"Right", 1>>, <<"Stay", 1>>, <<"Right", 5>>, <<"Down", 3>>,
       <<"Right", 8>>, <<"Down", 3>>, <<"Left", 2>>, <<"Down", 3>>,
       <<"Left", 3>>, <<"Up", 25>>, <<"Left", 6>>, <<"Down", 4>>,
       <<"Left", 3>>, <<"Up", 4>>, <<"Left", 11>>, <<"Down", 7>>,
       <<"Right", 5>>, <<"Up", 6>>, <<"Down", 3>>, <<"Left", 4>>,
       <<"Right", 7>>, <<"Down", 3>>, <<"Right", 3>>, <<"Left", 3>>,
       <<"Up", 3>>, <<"Right", 9>>, <<"Down", 3>>, <<"Left", 3>>,
       <<"Right", 3>>, <<"Up", 3>>, <<"Right", 8>>, <<"Up", 1>>,
       <<"Down", 4>>, <<"Left", 5>>, <<"Up", 7>>, <<"Right", 5>>,
       <<"Down", 1>>, <<"Up", 1>>, <<"Left", 11>>, <<"Down", 4>>,
       <<"Left", 9>>, <<"Down", 21>>, <<"Left", 3>>, <<"Up", 3>>,
       <<"Left", 1>>, <<"Right", 1>>, <<"Down", 3>>, <<"Left", 2>>,
       <<"Down", 3>>, <<"Right", 11>>, <<"Up", 3>>, <<"Left", 3>>,
       <<"Up", 3>>, <<"Left", 2>>, <<"Right", 8>>, <<"Up", 3>>,
       <<"Right", 2>>, <<"Left", 2>>, <<"Down", 3>>, <<"Right", 3>>,
       <<"Down", 3>>, <<"Left", 3>>, <<"Down", 3>>, <<"Left", 2>>,
       <<"Right", 13>>, <<"Up", 3>>, <<"Left", 5>>, <<"Up", 3>>,
       <<"Left", 2>>, <<"Right", 2>>, <<"Up", 18>>, <<"Right", 5>>,
       <<"Up", 2>> >>

MaxHuntSteps == 12
MaxHuntMoves == 2

InitHunt ==
    \E seed \in InitSeeds :
        Constructed(new_with_seed(seed), HuntScript, MaxHuntSteps, MaxHuntMoves)

SpecHunt == InitHunt /\ [][NextScripted]_vars

\* The fruit: before the first tick the player eats 70 pellets, none of them a
\* super pellet, so that the fruit appears; it walks over emptied cells to the
\* fruit at (17,13), steps left and back, and waits there while the mode turns
\* to chase and the agents close in.
FruitScript ==
    <<<<"Left", 1>>, <<"Up", 3>>, <<"Left", 6>>, <<"Up", 19>>, <<"Left", 5>>,
      <<"Down", 1>>, <<"Up", 1>>, <<"Right", 11>>, <<"Down", 4>>,
      <<"Left", 11>>, <<"Up", 1>>, <<"Down", 4>>, <<"Right", 5>>,
      <<"Up", 3>>, <<"Right", 3>>, <<"Down", 3>>, <<"Right", 3>>,
      <<"Down", 3>>, <<"Right", 3>>, <<"Up", 3>>, <<"Down", 3>>,
      <<"Right", 3>>, <<"Down", 6>>, <<"Left", 6>>, <<"Right", 1>>,
      <<"step", 998>> >>

MaxFruitSteps == 12
MaxFruitMoves == 2

InitFruit ==
    \E seed \in InitSeeds :
        Constructed(new_with_seed(seed), FruitScript, MaxFruitSteps, MaxFruitMoves)

SpecFruit == InitFruit /\ [][NextScripted]_vars

(***************************************************************************)
(* A game in which the player walks to the cell (17,9) and waits there     *)
(* into the first chase mode, until just before the tick at which Red, at  *)
(* a junction, has two directions equally near to the player.              *)
(***************************************************************************)
ChaseScript ==
    <<<<"Left", 1>>, <<"Up", 3>>, <<"Left", 3>>, <<"Up", 3>>, <<"step", 760>> >>

MaxChaseSteps == 12
MaxChaseMoves == 2

InitChase ==
    \E seed \in InitSeeds :
        Constructed(new_with_seed(seed), ChaseScript, MaxChaseSteps, MaxChaseMoves)

SpecChase == InitChase /\ [][NextScripted]_vars

(***************************************************************************)
(* A game in which the player keeps out of the agents' way through a       *)
(* scatter, a chase and a second scatter phase: whenever an agent comes    *)
(* near after an update, the player walks to a far cell.  The mode turns   *)
(* at the ticks 732, 2892 and, in the steps after the script, 3612.        *)
(***************************************************************************)
ModesScript ==
    <<<<"step", 984>>, <<"Left", 1>>, <<"Up", 3>>, <<"Left", 6>>,
      <<"Up", 15>>, <<"Right", 9>>, <<"Up", 4>>, <<"step", 348>>,
      <<"Right", 6>>, <<"Down", 22>>, <<"Left", 3>>, <<"Down", 3>>,
      <<"Left", 3>>, <<"Down", 3>>, <<"Right", 5>>, <<"step", 540>>,
      <<"Left", 8>>, <<"Up", 3>>, <<"Left", 3>>, <<"Up", 3>>, <<"Left", 3>>,
      <<"Up", 22>>, <<"Left", 5>>, <<"step", 696>>, <<"Right", 11>>,
      <<"Down", 4>>, <<"Right", 9>>, <<"Down", 21>>, <<"Right", 5>>,
      <<"Down", 3>>, <<"Left", 3>>, <<"step", 648>>, <<"Left", 8>>,
      <<"Up", 3>>, <<"Right", 3>>, <<"Up", 3>>, <<"Left", 6>>, <<"Up", 3>>,
      <<"step", 384>>>>

MaxModesSteps == 13
MaxModesMoves == 1

InitModes ==
    \E seed \in InitSeeds :
        Constructed(new_with_seed(seed), ModesScript, MaxModesSteps, MaxModesMoves)

SpecModes == InitModes /\ [][NextScripted]_vars

(***************************************************************************)
(* A game in which the player eats all but 21 pellets before the first     *)
(* tick, the 20th-last after the first update, keeps out of the agents'    *)
(* way over emptied cells for the 180 updates of the chase that the anger  *)
(* threshold starts, and eats one more pellet when the countdown of the    *)
(* mode has reached 0, at tick 1810.                                       *)
(***************************************************************************)
FreezeScript ==
    <<<<"Left", 1>>, <<"Up", 3>>, <<"Left", 6>>, <<"Up", 19>>, <<"Left", 5>>,
      <<"Down", 1>>, <<"Up", 1>>, <<"Right", 11>>, <<"Down", 4>>,
      <<"Left", 11>>, <<"Up", 1>>, <<"Down", 4>>, <<"Right", 5>>,
      <<"Up", 3>>, <<"Right", 3>>, <<"Down", 3>>, <<"Right", 3>>,
      <<"Down", 3>>, <<"Right", 3>>, <<"Up", 3>>, <<"Right", 3>>,
      <<"Up", 3>>, <<"Left", 3>>, <<"Up", 4>>, <<"Right", 6>>, <<"Down", 4>>,
      <<"Left", 2>>, <<"Right", 2>>, <<"Down", 15>>, <<"Left", 6>>,
      <<"Down", 3>>, <<"Right", 3>>, <<"Down", 3>>, <<"Left", 3>>,
      <<"Down", 3>>, <<"Left", 3>>, <<"Up", 3>>, <<"Left", 3>>, <<"Up", 3>>,
      <<"Left", 3>>, <<"Up", 3>>, <<"Left", 5>>, <<"Down", 2>>, <<"Up", 2>>,
      <<"Right", 5>>, <<"Down", 6>>, <<"Left", 3>>, <<"Up", 3>>,
      <<"Left", 1>>, <<"Right", 1>>, <<"Down", 3>>, <<"Left", 2>>,
      <<"Down", 3>>, <<"Right", 25>>, <<"Up", 3>>, <<"Left", 2>>,
      <<"Up", 3>>, <<"Right", 1>>, <<"Left", 1>>, <<"Down", 3>>,
      <<"Left", 3>>, <<"Up", 6>>, <<"Right", 5>>, <<"Down", 2>>, <<"Up", 2>>,
      <<"Left", 5>>, <<"Down", 3>>, <<"Left", 11>>, <<"Right", 5>>,
      <<"Up", 3>>, <<"Right", 3>>, <<"Up", 6>>, <<"Right", 3>>, <<"Up", 6>>,
      <<"Right", 4>>, <<"step", 12>>, <<"Right", 1>>, <<"Left", 5>>,
      <<"Down", 6>>, <<"Left", 3>>, <<"Down", 3>>, <<"Left", 9>>,
      <<"Down", 3>>, <<"Left", 3>>, <<"Down", 6>>, <<"Left", 5>>,
      <<"Down", 3>>, <<"step", 328>>, <<"Right", 25>>, <<"step", 250>>,
      <<"Up", 3>>, <<"Left", 5>>, <<"Up", 6>>, <<"Left", 3>>, <<"Up", 3>>,
      <<"Left", 9>>, <<"Up", 3>>, <<"Left", 3>>, <<"Up", 13>>, <<"Left", 5>>,
      <<"step", 470>>, <<"Right", 9>>, <<"step", 90>>, <<"Right", 1>>,
      <<"step", 20>>, <<"Right", 1>>, <<"step", 10>>, <<"Down", 1>>,
      <<"step", 30>>, <<"Down", 1>>, <<"step", 10>>, <<"Down", 2>>,
      <<"Left", 3>>, <<"Down", 3>>, <<"Right", 3>>, <<"Down", 3>>,
      <<"Right", 6>>, <<"Down", 9>>, <<"Right", 3>>, <<"Down", 6>>,
      <<"Right", 5>>, <<"Down", 3>>, <<"Left", 2>>, <<"step", 350>>,
      <<"Left", 12>>, <<"Up", 3>>, <<"Left", 3>>, <<"Up", 3>>, <<"Left", 3>>,
      <<"Up", 22>>, <<"Left", 5>>, <<"step", 240>>, <<"Right", 5>>,
      <<"Down", 4>>, <<"Right", 7>>>>

MaxFreezeSteps == 21
MaxFreezeMoves == 1

InitFreeze ==
    \E seed \in InitSeeds :
        Constructed(new_with_seed(seed), FreezeScript, MaxFreezeSteps, MaxFreezeMoves)

SpecFreeze == InitFreeze /\ [][NextScripted]_vars

\* The fright: the player waits at (22,12) as in the hunt until every agent
\* has left the house, and eats the super pellet at (23,1); free play follows
\* while the agents are frightened.
FrightScript ==
    << <<"Left", 1>>, <<"Up", 1>>, <<"step", 1020>>, <<"Up", 2>>,
       <<"Left", 11>>, <<"Down", 3>> >>

MaxFrightSteps == 90
MaxFrightMoves == 1

InitFright ==
    \E seed \in InitSeeds :
        Constructed(new_with_seed(seed), FrightScript, MaxFrightSteps, MaxFrightMoves)

SpecFright == InitFright /\ [][NextScripted]_vars

\* The four scripted games together.
InitGames == InitEndgame \/ InitHunt \/ InitFruit \/ InitChase

SpecGames == InitGames /\ [][NextScripted]_vars

\* The scripted games with a client that also tells the game where the player
\* is: a wall, cells out of the maze, the sentinel, the player's spawn cell
\* and cells near it.
PlaceTargets ==
    {<<0, 0>>, <<13, 13>>, <<0 - 1, 13>>, <<31, 13>>, <<23, 28>>, <<32, 32>>,
     <<23, 13>>, <<23, 12>>, <<20, 12>>, <<1, 6>>, <<1, 1>>}

SetPacmanLocation ==
    \E location \in PlaceTargets :
        /\ panic = "none"
        /\ script = <<>>
        /\ moves_left > 0
        /\ Store(set_pacman_location(Running(gs), location))
        /\ op' = Call("set_pacman_location", "Stay", NoPhases) @@ [location |-> location]
        /\ decoded' = NoDecode
        /\ query' = NoQuery
        /\ moves_left' = moves_left - 1
        /\ UNCHANGED <<engine_paused, script, steps_left>>

MaxPlaceSteps == 2
MaxPlaceMoves == 2

\* The client tells it after the endgame, with the player taken off the board,
\* and in the game of the chase, with the player in the maze.
InitPlace ==
    \E seed \in InitSeeds, opening \in {EndgameScript, ChaseScript} :
        Constructed(new_with_seed(seed), opening, MaxPlaceSteps, MaxPlaceMoves)

SpecPlace == InitPlace /\ [][NextScripted \/ SetPacmanLocation]_vars

\* The endgame with a client that also tells the player's location.
SpecOver == InitEndgame /\ [][NextScripted \/ SetPacmanLocation]_vars

(***************************************************************************)
(* The game with a client that also decodes snapshots.  The buffers are    *)
(* the snapshot of the current state cut to a length of DecodeLengths, and *)
(* that snapshot with a combined mode byte of ForeignModeBytes; the client  *)
(* decodes one buffer per state of the game.                               *)
(***************************************************************************)
DecodeLengths == {3, 27, 28, 90, 151, 152}

ForeignModeBytes == {3, 255}

Decode(bytes) ==
    LET r == from_bytes(bytes, gs.seed)
    IN  /\ panic = "none"
        /\ decoded.result = "none"
        /\ decoded' = [result |-> r.result, len |-> Len(bytes),
                       mode_byte |-> IF Len(bytes) >= MODE_AT THEN bytes[MODE_AT] ELSE 0,
                       state |-> r.state]
        /\ panic' = r.panic
        /\ op' = Call("from_bytes", "Stay", NoPhases)
        /\ plan_log' = NoPlan
        /\ coll_log' = NoColl
        /\ pellet_log' = NoPellet
        /\ UNCHANGED <<gs, engine_paused, query, script, steps_left, moves_left>>

\* The client calls from_bytes on a prefix of to_bytes of the state.
FromBytes ==
    LET snapshot == to_bytes(gs)
    IN  \E n \in DecodeLengths : Decode(SubSeq(snapshot, 1, n))

\* The client calls from_bytes on a snapshot whose mode byte no encoder wrote.
FromBytesForeign ==
    LET snapshot == to_bytes(gs)
    IN  \E m \in ForeignModeBytes : Decode([snapshot EXCEPT ![MODE_AT] = m])

NextCodec == Step \/ MovePacmanDir \/ FromBytes \/ FromBytesForeign

InitCodec ==
    \E seed \in InitSeeds : Constructed(new_with_seed(seed), <<>>, MaxCodecSteps, MaxCodecMoves)

SpecCodec == InitCodec /\ [][NextCodec]_vars

(***************************************************************************)
(* src/game_engine.rs: the engine around the game state                    *)
(***************************************************************************)
\* GameEngine::step; pause() is the engine's own flag.
engine_step(s) ==
    LET s1 == IF update_ready(s) THEN step_update(s) ELSE s
        s2 == plan_all_ghosts(s1)
    IN  IF ~update_ready(s1) THEN s1
        ELSE IF s2.panic # "none" THEN s2
        ELSE next_tick(s2)

\* GameEngine::force_step
engine_force_step(s) ==
    LET s1 == plan_all_ghosts(step_update(s))
    IN  IF s1.panic # "none" THEN s1 ELSE next_tick(s1)

\* GameEngine::set_pacman_location
engine_set_pacman_location(s, location, is_paused) ==
    LET s1 == [s EXCEPT !.pacman_loc = location]
    IN  IF is_paused THEN s1
        ELSE check_collisions(collect_pellet(s1, <<location.row, location.col>>))

engine_phases(s) ==
    LET s1 == IF update_ready(s) THEN step_update(s) ELSE s
    IN  [updated |-> update_ready(s), replanned |-> update_ready(s1)]

\* The pause the engine applies when the call cost a life.
PauseOnDeath(s) ==
    engine_paused' = IF s.panic = "none" /\ s.curr_lives < gs.curr_lives
                     THEN TRUE ELSE engine_paused

EngineStep ==
    /\ panic = "none"
    /\ steps_left > 0
    /\ Store(engine_step(Running(gs)))
    /\ PauseOnDeath(engine_step(Running(gs)))
    /\ op' = Call("GameEngine::step", "Stay", engine_phases(Running(gs)))
    /\ steps_left' = steps_left - 1
    /\ query' = NoQuery
    /\ UNCHANGED <<decoded, script, moves_left>>

EngineForceStep ==
    /\ panic = "none"
    /\ steps_left > 0
    /\ Store(engine_force_step(Running(gs)))
    /\ PauseOnDeath(engine_force_step(Running(gs)))
    /\ op' = Call("GameEngine::force_step", "Stay", [updated |-> TRUE, replanned |-> TRUE])
    /\ steps_left' = steps_left - 1
    /\ query' = NoQuery
    /\ UNCHANGED <<decoded, script, moves_left>>

EnginePause ==
    /\ panic = "none"
    /\ ~engine_paused
    /\ engine_paused' = TRUE
    /\ op' = Call("GameEngine::pause", "Stay", NoPhases)
    /\ UNCHANGED <<gs, panic, plan_log, coll_log, pellet_log, decoded, query, script, steps_left,
                   moves_left>>

EngineUnpause ==
    /\ panic = "none"
    /\ engine_paused
    /\ engine_paused' = FALSE
    /\ op' = Call("GameEngine::unpause", "Stay", NoPhases)
    /\ UNCHANGED <<gs, panic, plan_log, coll_log, pellet_log, decoded, query, script, steps_left,
                   moves_left>>

\* The client sends the cell next to the player in a direction it can go.
EngineSetPacmanLocation ==
    \E dir \in {"Up", "Left", "Down", "Right"} :
        LET there == get_neighbor_coords(gs.pacman_loc, dir)
            location == [row |-> there[1], col |-> there[2], dir |-> dir]
        IN  /\ panic = "none"
            /\ moves_left > 0
            /\ ~wall_at(there)
            /\ Store(engine_set_pacman_location(Running(gs), location, engine_paused))
            /\ op' = Call("GameEngine::set_pacman_location", dir, NoPhases)
            /\ moves_left' = moves_left - 1
            /\ UNCHANGED <<engine_paused, decoded, query, script, steps_left>>

NextEngine ==
    \/ EngineStep
    \/ EngineForceStep
    \/ EnginePause
    \/ EngineUnpause
    \/ EngineSetPacmanLocation

\* GameEngine::new
InitEngine ==
    \E seed \in InitSeeds : Constructed(new_with_seed(seed), <<>>, MaxEngineSteps, MaxMoves)

SpecEngine == InitEngine /\ [][NextEngine]_vars

(***************************************************************************)
(* Queries.  get_chase_target, wall_at and pellet_at are public functions  *)
(* that read the game state; a query records its arguments and its result. *)
(* The engine, while paused, puts the player wherever the client says.     *)
(***************************************************************************)
\* The cells the client reports the player at: the corners of the maze, the
\* player's and the fruit's spawn cells, cells at squared distance 64, 49 and
\* 81 from the orange agent's spawn cell, and the sentinel.
TargetCells ==
    {<<1, 1>>, <<1, 26>>, <<29, 1>>, <<29, 26>>, <<23, 13>>, <<17, 13>>,
     <<14, 7>>, <<22, 15>>, <<21, 15>>, <<23, 15>>, <<32, 32>>}

MaxTargetSteps == 8
MaxTargetMoves == 1

\* GameEngine::set_pacman_location with a location the client chooses.
EnginePlaceAt(cells, dirs) ==
    \E cell \in cells, dir \in dirs :
        LET location == [row |-> cell[1], col |-> cell[2], dir |-> dir]
        IN  /\ panic = "none"
            /\ moves_left > 0
            /\ Store(engine_set_pacman_location(Running(gs), location, engine_paused))
            /\ op' = Call("GameEngine::set_pacman_location", dir, NoPhases)
            /\ moves_left' = moves_left - 1
            /\ query' = NoQuery
            /\ UNCHANGED <<engine_paused, decoded, script, steps_left>>

EnginePlacePacman == EnginePlaceAt(TargetCells, Directions)

\* A read-only call: the game state stays, the observations are cleared.  The
\* client asks once about a game state.
Query(name, result) ==
    /\ panic = "none"
    /\ query = NoQuery
    /\ query' = result
    /\ op' = Call(name, "Stay", NoPhases)
    /\ plan_log' = NoPlan
    /\ coll_log' = NoColl
    /\ pellet_log' = NoPellet
    /\ UNCHANGED <<gs, panic, engine_paused, decoded, script, steps_left, moves_left>>

\* The client calls get_chase_target(color).
QueryChaseTarget ==
    \E color \in Colors :
        Query("get_chase_target",
              [name |-> "get_chase_target", color |-> color,
               target |-> get_chase_target(gs, color)])

NextTargets == EngineForceStep \/ EnginePlacePacman \/ QueryChaseTarget

InitTargets ==
    \E seed \in InitSeeds :
        Constructed(new_with_seed(seed), <<>>, MaxTargetSteps, MaxTargetMoves)

SpecTargets == InitTargets /\ [][NextTargets]_vars

\* The coordinates the client asks about: from two cells before the maze to
\* the sentinel behind it.
MazeMargin == 2

QueryRows == (0 - MazeMargin)..EMPTY_LOC.row

QueryCols == (0 - MazeMargin)..EMPTY_LOC.col

MaxMazeMoves == 1

\* The client calls wall_at(pos) and pellet_at(pos).
QueryMaze ==
    \E row \in QueryRows, col \in QueryCols :
        Query("wall_at",
              [name |-> "wall_at", pos |-> <<row, col>>,
               wall |-> wall_at(<<row, col>>),
               pellet |-> pellet_at(gs, <<row, col>>)])

NextMaze == MovePacmanDir \/ QueryMaze

InitMaze ==
    \E seed \in InitSeeds : Constructed(new_with_seed(seed), <<>>, 0, MaxMazeMoves)

SpecMaze == InitMaze /\ [][NextMaze]_vars

\* collides_with on two locations the client builds with LocationState::new:
\* coordinates before, at and after the edges of the maze and of the sentinel.
QueryCollides ==
    LET coords == {0 - 1, 0, 30, 31, 32, 33}
        locs == [row : coords, col : coords, dir : {"Up", "Stay"}]
    IN  \E loc1 \in locs, loc2 \in locs :
            Query("collides_with",
                  [name |-> "collides_with", loc1 |-> loc1, loc2 |-> loc2,
                   collides |-> collides_with(loc1, loc2),
                   back |-> collides_with(loc2, loc1)])

SpecCollide == InitMaze /\ [][QueryCollides]_vars

(***************************************************************************)
(* src/game_modes.rs: the mode as one byte, PAUSED among its values, and    *)
(* the last unpaused mode.  The functions read and write three fields of   *)
(* the game: mode, lastUnpausedMode and the lives.                         *)
(***************************************************************************)
PAUSED == 0
SCATTER == 1
CHASE == 2

get_mode(s) == s.mode

set_mode(s, mode) == [s EXCEPT !.mode = mode]

get_last_unpaused_mode(s) ==
    IF s.mode # PAUSED THEN s.mode ELSE s.lastUnpausedMode

set_last_unpaused_mode(s, mode) == [s EXCEPT !.lastUnpausedMode = mode]

is_paused(s) == get_mode(s) = PAUSED

\* pause, were it to leave the last unpaused mode as it was.
pause_without_saving(s) ==
    IF is_paused(s) THEN s ELSE set_mode(s, PAUSED)

pause(s) ==
    IF is_paused(s) THEN s
    ELSE set_mode(set_last_unpaused_mode(s, get_mode(s)), PAUSED)

play(s) ==
    IF ~is_paused(s) \/ s.curr_lives = 0 THEN s
    ELSE set_mode(s, get_last_unpaused_mode(s))

\* The states a sequence of calls of pause() and play() goes through.
RECURSIVE mode_calls(_, _)
mode_calls(s, calls) ==
    IF calls = <<>> THEN <<s>>
    ELSE <<s>> \o mode_calls(IF calls[1] = "pause" THEN pause(s) ELSE play(s),
                             Tail(calls))

MaxModeCalls == 3

\* The client calls pause() and play(), up to MaxModeCalls times, on a game
\* that runs or is paused, in either mode, with any number of lives.
QueryPausePlay ==
    \E mode \in {PAUSED, SCATTER, CHASE}, last \in {SCATTER, CHASE},
       lives \in 0..INIT_LIVES, n \in 1..MaxModeCalls :
        \E calls \in [1..n -> {"pause", "play"}] :
            Query("pause_play",
                  [name |-> "pause_play", calls |-> calls,
                   states |-> mode_calls([mode |-> mode, lastUnpausedMode |-> last,
                                          curr_lives |-> lives], calls)])

SpecPause == InitMaze /\ [][QueryPausePlay]_vars

(***************************************************************************)
(* Games whose score, level and lives a client has set through             *)
(* increment_score, set_level and set_lives before the first tick, near    *)
(* the ends of their types and at their initial values; the client also    *)
(* calls increment_score, increment_level and decrement_lives on a copy.   *)
(***************************************************************************)
MaxCounterSteps == 1
MaxCounterMoves == 1

CounterScores == {0, U16_MAX - 60, U16_MAX - 15, U16_MAX - 5, U16_MAX}
CounterLevels == {INIT_LEVEL, 6, U8_MAX - 1, U8_MAX}
CounterLives == {0, 1, INIT_LIVES}

InitCounters ==
    \E seed \in InitSeeds, score \in CounterScores, level \in CounterLevels,
       lives \in CounterLives :
        Constructed(set_lives(set_level(increment_score(new_with_seed(seed), score),
                                        level), lives),
                    <<>>, MaxCounterSteps, MaxCounterMoves)

QueryCounters ==
    script = <<>> /\ \E change \in {PELLET_POINTS, SUPER_PELLET_POINTS, FRUIT_POINTS,
                    COMBO_MULTIPLIER * 8} :
        Query("counters",
              [name |-> "counters", change |-> change,
               score |-> increment_score(Running(gs), change).curr_score,
               level |-> increment_level(Running(gs)).curr_level,
               period |-> increment_level(Running(gs)).update_period,
               lives |-> decrement_lives(Running(gs)).curr_lives])

NextCounters == Step \/ MovePacmanDir \/ QueryCounters

SpecCounters == InitCounters /\ [][NextCounters]_vars

(***************************************************************************)
(* Long games.  A client has put the player on the wall cell (0,0) through *)
(* GameEngine::set_pacman_location, which tests nothing, before the first  *)
(* tick: no agent reaches it there, and the game runs without a death or a *)
(* pellet.  The game is at level 1, or at level 6 through set_level, where *)
(* the update period is 2.  The script is the 960 updates of the level's   *)
(* countdown, and at level 6 most of the 240 updates after its penalty.    *)
(***************************************************************************)
PenaltyLevels == {INIT_LEVEL, 6}

MaxPenaltySteps == 13
MaxPenaltyMoves == 1

InitPenalty ==
    \E seed \in InitSeeds, level \in PenaltyLevels :
        Constructed(engine_set_pacman_location(
                        set_level(new_with_seed(seed), level),
                        [row |-> 0, col |-> 0, dir |-> "Stay"], TRUE),
                    <<<<"step", IF level = INIT_LEVEL
                                THEN LEVEL_DURATION * INIT_UPDATE_PERIOD
                                ELSE LEVEL_DURATION * 2 + 230>>>>,
                    MaxPenaltySteps, MaxPenaltyMoves)

\* The long games and the game that ends with fewer than 20 pellets.
SpecPenalty == (InitPenalty \/ InitFreeze) /\ [][NextScripted]_vars

\* The games in which the update period changes: by penalty, by anger and by
\* the next level; and the games at the last levels.
SpecPeriod ==
    (InitPenalty \/ InitFreeze \/ InitHunt \/ InitCounters)
        /\ [][NextScripted \/ QueryCounters]_vars

(***************************************************************************)
(* The engine with a client that reports the player on two of the cells    *)
(* of the energizers, on a cell before the ghost house and on one in it,    *)
(* and that forces updates in between: the player meets agents that are    *)
(* frightened, agents that are not, and both in one cell.                   *)
(***************************************************************************)
ClashCells == {<<3, 1>>, <<3, 26>>, <<11, 12>>, <<13, 13>>}

MaxClashSteps == 5
MaxClashMoves == 4

EnginePlaceClash == EnginePlaceAt(ClashCells, {"Up"})

NextClash == EngineUnpause \/ EngineForceStep \/ EnginePlaceClash

InitClash ==
    \E seed \in InitSeeds :
        Constructed(new_with_seed(seed), <<>>, MaxClashSteps, MaxClashMoves)

SpecClash == InitClash /\ [][NextClash]_vars

(***************************************************************************)
(* Properties                                                              *)
(***************************************************************************)
\* The cell an agent would plan to by turning to dir at its planned position.
turn_cell(c, dir) == get_neighbor_coords(gs.ghosts[c].next_loc, dir)

\* C5: in every planning pass, the direction committed to an agent that the
\* pass planned by choice (the agent was neither at the sentinel nor trapped)
\* is not the reverse of the direction the agent had before the pass.
NoReversePlanned ==
    \A c \in Colors :
        plan_log[c].outcome = "chosen"
            => gs.ghosts[c].next_loc.dir # opposite(plan_log[c].prior_dir)

\* C5 witness: a pass chose a direction for an agent while the cell behind
\* the agent was open and strictly nearer to its target than the cell chosen.
ReverseWasNearer ==
    \E c \in Colors :
        /\ plan_log[c].outcome = "chosen"
        /\ plan_log[c].prior_dir # "Stay"
        /\ gs.ghosts[c].fright_steps <= 1
        /\ ~wall_at(turn_cell(c, opposite(plan_log[c].prior_dir)))
        /\ dist_sq(turn_cell(c, opposite(plan_log[c].prior_dir)), plan_log[c].target)
               < dist_sq(turn_cell(c, gs.ghosts[c].next_loc.dir), plan_log[c].target)

\* C6: in every planning pass, each agent that is not at the sentinel is
\* planned (by choice, or by the forced reverse of a trapped agent) and its
\* planned position is the cell ahead of its position, whatever the agents
\* before it in colour order did.
PlanningIndependent ==
    \A c \in Colors :
        (plan_log[c].outcome # "none" /\ ~is_empty(gs.ghosts[c].loc))
            => /\ plan_log[c].outcome \in {"chosen", "trapped"}
               /\ get_coords(gs.ghosts[c].next_loc) = get_ahead_coords(gs.ghosts[c].loc, 1)

\* C1: every call of step, of the game state or of the engine around it,
\* increases the tick counter by exactly one, whether or not an update is due.
StepAdvancesOneTick ==
    [][op'.name \in {"step", "GameEngine::step"}
           => gs'.curr_ticks = gs.curr_ticks + 1]_vars

\* The fields a snapshot carries, of a game state and of an agent.
SnapshotFields ==
    {"mode", "paused", "mode_steps", "curr_score", "curr_level", "curr_lives",
     "pacman_loc", "fruit_loc", "fruit_steps", "pellets", "num_pellets"}

SnapshotGhostFields == {"loc", "fright_steps", "spawning"}

\* A buffer that to_bytes wrote, whole, has been decoded.
DecodedWhole ==
    /\ decoded.result # "none"
    /\ decoded.len = SNAPSHOT_LEN
    /\ decoded.mode_byte \in {0, 1, 2}

\* C2: from_bytes(to_bytes(s), s.seed) of a reachable state s succeeds and
\* reproduces the mode, the paused flag, the mode steps, the score, the level,
\* the lives, each agent's position, frightened steps and spawning flag, the
\* player, the fruit, the pellet grid and the pellet count of s.
RoundTrip ==
    DecodedWhole
        => /\ decoded.result = "ok"
           /\ \A f \in SnapshotFields : decoded.state[f] = gs[f]
           /\ \A c \in Colors : \A f \in SnapshotGhostFields :
                  decoded.state.ghosts[c][f] = gs.ghosts[c][f]

\* C3: from_bytes returns an I/O error for every buffer shorter than the
\* snapshot, wherever it is cut.
TruncatedIsIoError ==
    (decoded.result # "none" /\ decoded.len < SNAPSHOT_LEN)
        => decoded.result = "io error"

\* C4: from_bytes given a combined mode byte other than 0, 1 or 2 returns an
\* error to its caller; it neither decodes a state nor aborts the process.
ForeignModeByteIsError ==
    (decoded.result # "none" /\ decoded.mode_byte \notin {0, 1, 2})
        => (decoded.result = "io error" /\ panic = "none")

\* C7: no planning pass of a reachable state finds an agent that is neither
\* at the sentinel nor trapped without a valid direction: the abort "ghost has
\* no valid moves!" does not happen.
NoValidMovesAbortUnreachable ==
    /\ panic # "ghost has no valid moves!"
    /\ \A c \in Colors : plan_log[c].outcome # "no valid moves"

\* C8 as stated: collecting a super pellet leaves every agent with 40
\* frightened steps and the combo 0.
SuperPelletFrightensAll ==
    pellet_log.collected = "super"
        => /\ gs.ghost_combo = 0
           /\ \A c \in Colors : gs.ghosts[c].fright_steps = GHOST_FRIGHT_STEPS

\* C8 amended: collecting a super pellet leaves the combo 0 and every agent
\* with 40 frightened steps, whatever the agents' states before, unless the
\* pellet was the last of the level: then the level reset leaves every agent
\* with 0 frightened steps.
SuperPelletFrightensUnlessLast ==
    pellet_log.collected = "super"
        => /\ gs.ghost_combo = 0
           /\ \A c \in Colors :
                  gs.ghosts[c].fright_steps =
                      IF pellet_log.level_reset THEN 0 ELSE GHOST_FRIGHT_STEPS

\* C8 witness: a super pellet that was not the last pellet was collected with
\* the combo above 0, an agent eaten and spawning, and another frightened and
\* trapped.
SuperPelletOverMixedAgents ==
    /\ pellet_log.collected = "super"
    /\ ~pellet_log.level_reset
    /\ pellet_log.combo_before > 0
    /\ \E c \in Colors : pellet_log.before[c].eaten /\ pellet_log.before[c].spawning
    /\ \E c \in Colors :
           /\ ~pellet_log.before[c].eaten
           /\ is_frightened(pellet_log.before[c])
           /\ is_trapped(pellet_log.before[c])
    /\ \A c \in Colors : gs.ghosts[c].fright_steps = GHOST_FRIGHT_STEPS

\* The sum of COMBO_MULTIPLIER * 2^(c+i) over i in 0..k-1.
ComboSum(c, k) == COMBO_MULTIPLIER * (2 ^ c) * ((2 ^ k) - 1)

\* C9: a collision pass that eats k >= 1 agents without the player dying,
\* from combo c, adds the sum over i < k of 200 * 2^(c+i) to the score,
\* saturating, awards 200 * 2^(c+i) for the i-th, and leaves the combo c+k.
ComboScoring ==
    (coll_log.ran /\ ~coll_log.did_pacman_die /\ coll_log.num_ghosts_eaten >= 1)
        => /\ coll_log.post_score =
                  Min(U16_MAX, coll_log.pre_score
                                   + ComboSum(coll_log.pre_combo, coll_log.num_ghosts_eaten))
           /\ coll_log.post_combo = coll_log.pre_combo + coll_log.num_ghosts_eaten
           /\ coll_log.awards =
                  [i \in 1..coll_log.num_ghosts_eaten |->
                      COMBO_MULTIPLIER * 2 ^ (coll_log.pre_combo + i - 1)]

\* C9 witness: one pass ate two agents from combo 0, for 200 then 400.
TwoEatenInOnePass ==
    /\ coll_log.ran
    /\ ~coll_log.did_pacman_die
    /\ coll_log.num_ghosts_eaten = 2
    /\ coll_log.pre_combo = 0
    /\ coll_log.awards = <<200, 400>>
    /\ coll_log.post_score = coll_log.pre_score + 600

\* C10 as stated: the first agent eaten in any pass is awarded the base
\* points, whatever was eaten in earlier ticks.
FirstEatenGetsBase ==
    (coll_log.ran /\ ~coll_log.did_pacman_die /\ coll_log.num_ghosts_eaten >= 1)
        => coll_log.awards[1] = COMBO_MULTIPLIER

\* C10 amended: the combo carries across passes and ticks.  The first agent
\* eaten in a pass is awarded 200 * 2^c for the combo c the call started
\* with, and a call in which nothing is eaten, nobody dies, no super pellet
\* is collected and no level ends leaves the combo as it was.
ComboCarriesAcrossTicks ==
    [][/\ (coll_log'.ran /\ ~coll_log'.did_pacman_die
              /\ coll_log'.num_ghosts_eaten >= 1)
           => coll_log'.awards[1] = COMBO_MULTIPLIER * 2 ^ gs.ghost_combo
       /\ (~coll_log'.did_pacman_die /\ coll_log'.num_ghosts_eaten = 0
              /\ pellet_log'.collected # "super" /\ ~pellet_log'.level_reset)
           => gs'.ghost_combo = gs.ghost_combo]_vars

\* C10 witness: a pass in a later tick than the one that ate two agents ate a
\* third, from combo 2, for 800 points.
ThirdEatenInLaterTick ==
    /\ coll_log.ran
    /\ ~coll_log.did_pacman_die
    /\ coll_log.num_ghosts_eaten = 1
    /\ coll_log.pre_combo = 2
    /\ coll_log.awards = <<800>>
    /\ gs.curr_ticks % gs.update_period # 0

\* The fields GhostState::reset writes, for the agent of colour c.
AgentIsReset(c) ==
    /\ gs.ghosts[c].loc = EMPTY_LOC
    /\ gs.ghosts[c].next_loc = GHOST_SPAWN_LOCS[c + 1]
    /\ gs.ghosts[c].spawning
    /\ gs.ghosts[c].trapped_steps = GHOST_TRAPPED_STEPS[c + 1]
    /\ gs.ghosts[c].fright_steps = 0

\* collect_pellet found a pellet and it was the only bit left in the grid.
CollectedLastPellet ==
    /\ pellet_log.collected # "none"
    /\ sum_ones(pellet_log.prior.pellets, 1) = 1

\* C11: collecting the last pellet of the grid leaves all 244 pellets
\* restored, the level one higher (255 stays 255), the score not lowered, the
\* player at the sentinel from which the next update respawns it, every agent
\* as GhostState::reset leaves it, and the mode the initial mode with its full
\* countdown.
LastPelletResetsLevel ==
    CollectedLastPellet
        => /\ gs.pellets = INIT_PELLETS
           /\ gs.num_pellets = INIT_PELLET_COUNT
           /\ sum_ones(gs.pellets, 1) = INIT_PELLET_COUNT
           /\ gs.curr_level = Min(U8_MAX, pellet_log.prior.curr_level + 1)
           /\ gs.curr_score >= pellet_log.prior.curr_score
           /\ gs.pacman_loc = EMPTY_LOC
           /\ gs.curr_lives > 0
           /\ \A c \in Colors : AgentIsReset(c)
           /\ gs.mode = INIT_MODE
           /\ gs.mode_steps = duration(INIT_MODE)

\* C11 witness: the last pellet was collected in chase mode on level 1, with
\* a score to keep.
LastPelletCollectedInChase ==
    /\ CollectedLastPellet
    /\ pellet_log.prior.mode = "CHASE"
    /\ pellet_log.prior.curr_level = INIT_LEVEL
    /\ pellet_log.prior.curr_score > 0
    /\ gs.curr_level = INIT_LEVEL + 1
    /\ gs.num_pellets = INIT_PELLET_COUNT

\* collect_pellet found a pellet and left the count at an anger threshold.
CollectedToAngerThreshold ==
    /\ pellet_log.collected # "none"
    /\ pellet_log.prior.num_pellets - 1 \in {ANGER_THRESHOLD1, ANGER_THRESHOLD2}

\* C12: when collecting a pellet brings the count to 20 or to 10, the mode is
\* chase with its full countdown and the update period is max(1, period - 2),
\* whatever the mode was.
AngerThresholdForcesChase ==
    CollectedToAngerThreshold
        => /\ gs.mode = "CHASE"
           /\ gs.mode_steps = duration("CHASE")
           /\ gs.update_period = Max(1, pellet_log.prior.update_period - 2)
           /\ gs.num_pellets = pellet_log.prior.num_pellets - 1

\* C12 witness: the count came to 20 while the mode was scatter.
AngerFromScatter ==
    /\ CollectedToAngerThreshold
    /\ pellet_log.prior.mode = "SCATTER"
    /\ gs.num_pellets = ANGER_THRESHOLD1
    /\ gs.mode = "CHASE"
    /\ gs.update_period = INIT_UPDATE_PERIOD - 2

\* C13: when the player dies in a collision pass, the pass leaves the mode
\* the initial mode with its full countdown if more than 20 pellets are left,
\* and the mode and its countdown as they were otherwise.
DeathRestoresModeAboveThreshold ==
    coll_log.did_pacman_die
        => IF coll_log.num_pellets > ANGER_THRESHOLD1
           THEN /\ coll_log.post_mode = INIT_MODE
                /\ coll_log.post_mode_steps = duration(INIT_MODE)
           ELSE /\ coll_log.post_mode = coll_log.pre_mode
                /\ coll_log.post_mode_steps = coll_log.pre_mode_steps

\* C13 witness: the player died in chase mode with more than 20 pellets left.
DiedInChaseAboveThreshold ==
    /\ coll_log.did_pacman_die
    /\ coll_log.num_pellets > ANGER_THRESHOLD1
    /\ coll_log.pre_mode = "CHASE"
    /\ coll_log.pre_mode_steps < duration("CHASE")
    /\ coll_log.post_mode = "SCATTER"

\* collect_pellet was called on a cell that holds no pellet.
CalledOnEmptyCell == pellet_log.called /\ pellet_log.collected = "none"

\* C14 as stated: a call of collect_pellet on a cell without a pellet changes
\* neither the score, nor the pellet count, nor the grid.
EmptyCellChangesNothing ==
    CalledOnEmptyCell
        => /\ gs.curr_score = pellet_log.prior.curr_score
           /\ gs.num_pellets = pellet_log.prior.num_pellets
           /\ gs.pellets = pellet_log.prior.pellets

\* C14 amended: a call of collect_pellet on a cell without a pellet changes
\* neither the pellet count nor the grid; it adds the fruit points to the
\* score and removes the fruit if the fruit is out and the player is on its
\* cell, and leaves the score as it was otherwise, so a second call on the
\* same cell changes nothing.
EmptyCellCollectsOnlyFruit ==
    CalledOnEmptyCell
        => LET on_fruit == /\ pellet_log.prior.fruit_steps > 0
                           /\ collides_with(gs.pacman_loc, gs.fruit_loc)
           IN  /\ gs.num_pellets = pellet_log.prior.num_pellets
               /\ gs.pellets = pellet_log.prior.pellets
               /\ on_fruit => /\ gs.fruit_steps = 0
                               /\ gs.curr_score =
                                      Min(U16_MAX, pellet_log.prior.curr_score + FRUIT_POINTS)
               /\ ~on_fruit => /\ gs.curr_score = pellet_log.prior.curr_score
                                /\ gs.fruit_steps = pellet_log.prior.fruit_steps

\* C14 witness: the player stepped on the fruit, on a cell without a pellet.
FruitOnEmptyCell ==
    /\ CalledOnEmptyCell
    /\ pellet_log.prior.fruit_steps = FRUIT_DURATION
    /\ get_coords(gs.pacman_loc) = get_coords(FRUIT_SPAWN_LOC)
    /\ gs.curr_score = pellet_log.prior.curr_score + FRUIT_POINTS
    /\ gs.fruit_steps = 0

\* The squared Euclidean distance between the orange agent and the player.
OrangeToPlayer ==
    (gs.pacman_loc.row - gs.ghosts[Orange].loc.row) ^ 2
        + (gs.pacman_loc.col - gs.ghosts[Orange].loc.col) ^ 2

PlayerCell == <<gs.pacman_loc.row, gs.pacman_loc.col>>

OrangeScatterCell ==
    <<GHOST_SCATTER_TARGETS[Orange + 1].row, GHOST_SCATTER_TARGETS[Orange + 1].col>>

AskedTargetOf(color) == query.name = "get_chase_target" /\ query.color = color

\* C15 as stated: Orange's chase target is the player's position, except that
\* it is Orange's scatter position when the squared distance is >= 64.
OrangeScattersWhenFar ==
    AskedTargetOf(Orange)
        => query.target = IF OrangeToPlayer >= 64 THEN OrangeScatterCell ELSE PlayerCell

\* C15 amended: Orange's chase target is the player's position when the
\* squared distance from Orange to the player is >= 64, and Orange's scatter
\* position when it is below 64.
OrangeChasesWhenFar ==
    AskedTargetOf(Orange)
        => query.target = IF OrangeToPlayer >= 64 THEN PlayerCell ELSE OrangeScatterCell

\* C15 witness: with Orange in the maze and the player at squared distance
\* exactly 64, the target is the player's position.
OrangeAtDistance64 ==
    /\ AskedTargetOf(Orange)
    /\ ~is_empty(gs.ghosts[Orange].loc)
    /\ OrangeToPlayer = 64
    /\ query.target = PlayerCell
    /\ query.target # OrangeScatterCell

\* The signed 8-bit range.
InI8(x) == x >= 0 - 128 /\ x <= 127

\* C16: get_chase_target returns the player's position for Red, the cell 4
\* steps ahead of the player in its direction for Pink, and 2 * pivot - red
\* for Cyan, where pivot is the cell 2 steps ahead of the player and red is
\* Red's position; every intermediate value is in the signed 8-bit range.
ChaseTargetsOfRedPinkCyan ==
    LET v == vector(gs.pacman_loc.dir)
        pink == <<gs.pacman_loc.row + 4 * v[1], gs.pacman_loc.col + 4 * v[2]>>
        pivot == <<gs.pacman_loc.row + 2 * v[1], gs.pacman_loc.col + 2 * v[2]>>
        red == gs.ghosts[Red].loc
        cyan == <<2 * pivot[1] - red.row, 2 * pivot[2] - red.col>>
    IN  /\ AskedTargetOf(Red) => query.target = PlayerCell
        /\ AskedTargetOf(Pink)
               => /\ query.target = pink
                  /\ \A i \in 1..2 : InI8(4 * v[i]) /\ InI8(pink[i])
        /\ AskedTargetOf(Cyan)
               => /\ query.target = cyan
                  /\ \A i \in 1..2 :
                         /\ InI8(2 * v[i]) /\ InI8(pivot[i])
                         /\ InI8(2 * pivot[i]) /\ InI8(cyan[i])

\* C16 witness: with Red in the maze and the player in a corner facing out of
\* the maze, Cyan's target is a cell of negative coordinates.
CyanTargetOutOfMaze ==
    /\ AskedTargetOf(Cyan)
    /\ ~is_empty(gs.ghosts[Red].loc)
    /\ gs.pacman_loc.dir = "Up"
    /\ PlayerCell = <<1, 1>>
    /\ query.target[1] < 0
    /\ query.target[2] < 0

\* The index of a direction in the order Up, Left, Down, Right.
DirIndex(dir) == CHOOSE i \in 1..4 : <<"Up", "Left", "Down", "Right">>[i] = dir

\* The squared distance to the target of agent c's last planning, from the
\* cell next to its planned position in direction dir.
PlannedDistance(c, dir) ==
    (plan_log[c].next_pos[1] + vector(dir)[1] - plan_log[c].target[1]) ^ 2
        + (plan_log[c].next_pos[2] + vector(dir)[2] - plan_log[c].target[2]) ^ 2

ValidDirs(c) == {plan_log[c].valid[i] : i \in 1..Len(plan_log[c].valid)}

PlannedByDistance(c) ==
    plan_log[c].outcome = "chosen" /\ plan_log[c].fright_steps <= 1

\* C17: an agent planned while neither trapped nor about to remain frightened
\* (frightened steps <= 1) is committed to a valid direction whose cell has
\* the smallest squared distance to the target; among several such directions
\* it is the first in the order Up, Left, Down, Right.
NearestValidDirection ==
    \A c \in Colors :
        PlannedByDistance(c)
            => /\ plan_log[c].chosen \in ValidDirs(c)
               /\ \A dir \in ValidDirs(c) :
                      \/ PlannedDistance(c, plan_log[c].chosen) < PlannedDistance(c, dir)
                      \/ /\ PlannedDistance(c, plan_log[c].chosen) = PlannedDistance(c, dir)
                         /\ DirIndex(plan_log[c].chosen) <= DirIndex(dir)

\* C17 witness: an agent was planned by distance while another valid
\* direction was as near to the target as the one committed.
NearestDirectionTied ==
    \E c \in Colors :
        /\ PlannedByDistance(c)
        /\ gs.ghosts[c].next_loc.dir = plan_log[c].chosen
        /\ \E dir \in ValidDirs(c) :
               /\ dir # plan_log[c].chosen
               /\ PlannedDistance(c, dir) = PlannedDistance(c, plan_log[c].chosen)

\* C18: in every state between calls of step and move_pacman_dir, whatever
\* collisions, death resets and level resets the calls ran, an agent that is
\* eaten is spawning.
EatenImpliesSpawning ==
    \A c \in Colors : gs.ghosts[c].eaten => gs.ghosts[c].spawning

\* C18 witness: a collision pass ate an agent that had left the ghost house
\* (it was not spawning before the pass), and the agent is eaten now.
EatenOutsideGhostHouse ==
    \E c \in Colors :
        /\ coll_log.ran
        /\ coll_log.num_ghosts_eaten > 0
        /\ ~coll_log.pre_ghosts[c].spawning
        /\ ~coll_log.pre_ghosts[c].eaten
        /\ gs.ghosts[c].eaten
        /\ gs.ghosts[c].spawning

\* The agents in the player's cell before the last collision pass that were
\* not eaten, and the ones of them that were not frightened.
MetInPass ==
    {c \in Colors : /\ collides_with(coll_log.pre_pacman_loc, coll_log.pre_ghosts[c].loc)
                    /\ ~coll_log.pre_ghosts[c].eaten}

LethalInPass == {c \in MetInPass : coll_log.pre_ghosts[c].fright_steps = 0}

\* The agents the scan examined: all of them, or those up to the first
\* lethal one in the order Red, Pink, Cyan, Orange.
ExaminedInPass ==
    {c \in Colors : \A k \in LethalInPass : c <= k}

\* C19: in a collision pass the player dies if and only if an agent that is
\* neither eaten nor frightened is in its cell; the scan goes by colour and
\* stops at the first such agent, so that only frightened agents before it
\* are eaten and the agents after it are left as they were; no points are
\* awarded in a pass in which the player dies.
DeathByFirstLethalAgent ==
    coll_log.ran
        => /\ coll_log.did_pacman_die <=> LethalInPass # {}
           /\ coll_log.num_ghosts_eaten
                  = Cardinality((MetInPass \ LethalInPass) \cap ExaminedInPass)
           /\ \A c \in Colors \ ExaminedInPass :
                  gs.ghosts[c].eaten = coll_log.pre_ghosts[c].eaten
           /\ coll_log.did_pacman_die
                  => /\ coll_log.awards = <<>>
                     /\ coll_log.post_score = coll_log.pre_score

\* C19 witness: the player died in a pass that had eaten a frightened agent
\* before it came to the lethal one, and the score it had stayed.
AteThenDied ==
    /\ coll_log.ran
    /\ coll_log.did_pacman_die
    /\ coll_log.num_ghosts_eaten > 0
    /\ coll_log.pre_score > 0
    /\ coll_log.post_score = coll_log.pre_score

\* Whether the bit of a column is set in a row of a grid.
ColumnSet(row_bits, col) == row_bits % (2 ^ (col + 1)) >= 2 ^ col

AskedOutOfMaze ==
    /\ query.name = "wall_at"
    /\ \/ query.pos[1] < 0 \/ query.pos[1] >= 31
       \/ query.pos[2] < 0 \/ query.pos[2] >= 28

\* C20: for a position outside rows 0..30 and columns 0..27, negative
\* coordinates and the sentinel (32,32) included, wall_at is true and
\* pellet_at is false; for a position inside, each is the bit of the
\* position's column in the position's row of its grid.
OutOfMazeIsWallWithoutPellet ==
    query.name = "wall_at"
        => IF AskedOutOfMaze
           THEN query.wall /\ ~query.pellet
           ELSE /\ query.wall <=> ColumnSet(INIT_WALLS[query.pos[1] + 1], query.pos[2])
                /\ query.pellet <=> ColumnSet(gs.pellets[query.pos[1] + 1], query.pos[2])

\* C20 witness: asked about the sentinel after the player ate a pellet,
\* wall_at said wall and pellet_at said no pellet.
AskedAtSentinel ==
    /\ AskedOutOfMaze
    /\ query.pos = <<EMPTY_LOC.row, EMPTY_LOC.col>>
    /\ gs.num_pellets < 244
    /\ query.wall
    /\ ~query.pellet

AskedCollision == query.name = "collides_with"

SameCell == query.loc1.row = query.loc2.row /\ query.loc1.col = query.loc2.col

\* Whether a location is a cell of the maze of 31 rows and 28 columns.
OnBoard(loc) == loc.row >= 0 /\ loc.row < 31 /\ loc.col >= 0 /\ loc.col < 28

\* C21 as stated: two positions collide if and only if their rows and
\* columns are equal and both positions are on the board.
CollideIffSameCellOnBoard ==
    AskedCollision
        => (query.collides <=> SameCell /\ OnBoard(query.loc1) /\ OnBoard(query.loc2))

\* C21 amended: two positions collide if and only if their rows and columns
\* are equal and no coordinate of either is 32 or more; a position with a
\* coordinate of 32 or more collides with nothing, itself included; the
\* relation is symmetric and does not depend on the directions.
CollideIffSameCellBelowSentinel ==
    AskedCollision
        => /\ query.collides
                <=> /\ SameCell
                    /\ query.loc1.row < 32 /\ query.loc1.col < 32
                    /\ query.loc2.row < 32 /\ query.loc2.col < 32
           /\ query.back = query.collides

\* C21 witness: the sentinel, asked about itself, does not collide.
SentinelMissesItself ==
    /\ AskedCollision
    /\ query.loc1 = EMPTY_LOC
    /\ query.loc2 = EMPTY_LOC
    /\ ~query.collides

\* Whether the cell next to a location in a direction is a wall or is out of
\* the maze.
WallAhead(loc, dir) ==
    LET row == loc.row + vector(dir)[1]
        col == loc.col + vector(dir)[2]
    IN  \/ row < 0 \/ row >= 31 \/ col < 0 \/ col >= 28
        \/ ColumnSet(INIT_WALLS[row + 1], col)

\* C22: a call of move_pacman_dir(dir), the collisions resolved, that finds
\* a wall or the outside of the maze next to the player in direction dir
\* leaves the player's row and column, the pellet grid, the number of
\* pellets and the score as the collision pass left them.
MoveIntoWallIgnored ==
    [][op'.name = "move_pacman_dir"
          => LET resolved == check_collisions(Running(gs))
             IN  WallAhead(resolved.pacman_loc, op'.dir)
                     => /\ gs'.pacman_loc.row = resolved.pacman_loc.row
                        /\ gs'.pacman_loc.col = resolved.pacman_loc.col
                        /\ gs'.pellets = resolved.pellets
                        /\ gs'.num_pellets = resolved.num_pellets
                        /\ gs'.curr_score = resolved.curr_score]_vars

\* C22 witness: the player, a pellet under it eaten before, was moved against
\* a wall next to it; the collision pass of the call found no agent.
MovedAgainstWall ==
    /\ op.name = "move_pacman_dir"
    /\ op.dir # "Stay"
    /\ ~is_empty(gs.pacman_loc)
    /\ WallAhead(gs.pacman_loc, op.dir)
    /\ gs.pacman_loc.dir = op.dir
    /\ coll_log.ran
    /\ ~coll_log.did_pacman_die
    /\ gs.curr_score > 0
    /\ gs.curr_score = coll_log.post_score

\* The cells next to the cells of a set that are no wall.
OpenNextTo(cells) ==
    {cell \in {<<near[1] + delta[1], near[2] + delta[2]>> :
                  near \in cells,
                  delta \in {<<0 - 1, 0>>, <<1, 0>>, <<0, 0 - 1>>, <<0, 1>>}} :
        /\ cell[1] >= 0 /\ cell[1] < 31 /\ cell[2] >= 0 /\ cell[2] < 28
        /\ ~ColumnSet(INIT_WALLS[cell[1] + 1], cell[2])}

\* Paths of up to n more moves: last are the cells the longest paths so far
\* have newly led to, reached all the cells the paths so far lead to.
RECURSIVE LongerPaths(_, _)
LongerPaths(n, paths) ==
    IF paths.last = {} THEN paths
    ELSE IF n = 1
    THEN LET further == OpenNextTo(paths.last) \ paths.reached
         IN  [last |-> further, reached |-> paths.reached \cup further]
    ELSE LET half == LongerPaths(n \div 2, paths)
         IN  IF half.last = {} THEN half ELSE LongerPaths(n - n \div 2, half)

\* The cells that a path of one move or more leads to from a cell.
PathsLeadTo(cell) == LongerPaths(31 * 28, [last |-> {cell}, reached |-> {}]).reached

\* Whether set_pacman_location must drop a request: the target is a wall or
\* is out of the maze, or no path leads to it from the player's cell.
MustDrop(location) ==
    \/ location[1] < 0 \/ location[1] >= 31 \/ location[2] < 0 \/ location[2] >= 28
    \/ ColumnSet(INIT_WALLS[location[1] + 1], location[2])
    \/ location \notin PathsLeadTo(<<gs.pacman_loc.row, gs.pacman_loc.col>>)

\* C23: set_pacman_location with a target that is a wall, is out of bounds or
\* cannot be reached from the player's cell, the player at the sentinel
\* included, leaves the state of the game as it was.
UnreachableTargetDropped ==
    [][(op'.name = "set_pacman_location" /\ MustDrop(op'.location))
          => gs' = gs /\ panic' = panic]_vars

\* C23 witness: with the player at the sentinel after a death, the game was
\* told the player is at its spawn cell, which is no wall.
ToldSpawnCellAtSentinel ==
    /\ op.name = "set_pacman_location"
    /\ op.location = <<PACMAN_SPAWN_LOC.row, PACMAN_SPAWN_LOC.col>>
    /\ is_empty(gs.pacman_loc)
    /\ gs.curr_lives < 3

(***************************************************************************)
(* C24: the score stops at 65535, the level at 255 and the lives at 0: a   *)
(* call that would pass the end leaves the counter at the end, and in      *)
(* every step of a game the score and the level do not decrease and the    *)
(* lives do not increase.                                                  *)
(***************************************************************************)
CountersSaturate ==
    [][/\ gs'.curr_score \in gs.curr_score..65535
       /\ gs'.curr_level \in gs.curr_level..255
       /\ gs'.curr_lives \in 0..gs.curr_lives
       /\ query'.name = "counters" =>
              /\ query'.score = IF gs.curr_score + query'.change > 65535
                                THEN 65535 ELSE gs.curr_score + query'.change
              /\ query'.level = IF gs.curr_level = 255 THEN 255
                                ELSE gs.curr_level + 1
              /\ query'.lives = IF gs.curr_lives = 0 THEN 0
                                ELSE gs.curr_lives - 1]_vars

\* The three calls made on a game whose counters are all at their ends.
CountersAtTheirEnds ==
    /\ query.name = "counters"
    /\ gs.curr_score = 65535 /\ query.score = 65535
    /\ gs.curr_level = 255 /\ query.level = 255
    /\ gs.curr_lives = 0 /\ query.lives = 0

(***************************************************************************)
(* C25: in a game without a death, a level reset or an anger threshold so  *)
(* far, and before the first penalty, the mode and its countdown follow    *)
(* the schedule of 60 updates of scatter and 180 updates of chase in       *)
(* turn: the update that finds the countdown at 0 turns the mode and sets  *)
(* the countdown to the duration of the new mode, of which it takes the    *)
(* first step at once.                                                     *)
(***************************************************************************)
Uneventful ==
    /\ gs.curr_lives = INIT_LIVES
    /\ gs.curr_level = INIT_LEVEL
    /\ gs.num_pellets > ANGER_THRESHOLD1
    /\ gs.update_period = INIT_UPDATE_PERIOD

ModeFollowsSchedule ==
    Uneventful =>
        LET updates == gs.curr_ticks \div INIT_UPDATE_PERIOD
            within == (updates + 240 - 1) % 240
        IN  IF updates = 0 THEN gs.mode = "SCATTER" /\ gs.mode_steps = 60
            ELSE IF within < 60
            THEN gs.mode = "SCATTER" /\ gs.mode_steps = 60 - 1 - within
            ELSE gs.mode = "CHASE" /\ gs.mode_steps = 240 - 1 - within

\* The update of tick 12 * (60 + 180 + 1) has turned the mode to scatter for
\* the second time.
SecondScatterBegun ==
    /\ Uneventful
    /\ gs.curr_ticks = 2892
    /\ gs.mode = "SCATTER"
    /\ gs.mode_steps = 59

\* A call of step updates, dies no death and turns the mode on its timer.
TimerTurnsMode ==
    /\ op'.name = "step"
    /\ op'.updated
    /\ gs'.curr_lives = gs.curr_lives
    /\ gs.mode_steps = 0
    /\ gs'.mode # gs.mode

\* C26: in a step whose update turns the mode on its timer, the planning
\* pass of the same step sets the planned direction of every agent that is
\* on the board and was not trapped to the opposite of its direction.
TurnReversesEveryAgent ==
    [][TimerTurnsMode =>
           \A c \in Colors :
               (~is_empty(gs'.ghosts[c].loc) /\ ~is_trapped(gs.ghosts[c]))
                   => gs'.ghosts[c].next_loc.dir = opposite(gs'.ghosts[c].loc.dir)]_vars

(***************************************************************************)
(* C27: an update takes one step off the countdown of the mode if and only *)
(* if 20 pellets or more remain.  The countdown it steps is the one the    *)
(* update has before handle_step_events counts: the duration of the        *)
(* initial mode after a death with more than 20 pellets, the duration of   *)
(* the new mode after a turn, else the countdown before the step.  A step  *)
(* without update leaves the countdown alone.                              *)
(***************************************************************************)
CountdownStepsWithPellets ==
    [][op'.name = "step" =>
           LET loaded == IF gs'.curr_lives < gs.curr_lives
                            /\ gs.num_pellets > ANGER_THRESHOLD1
                         THEN duration(INIT_MODE)
                         ELSE IF gs.mode_steps = 0 THEN duration(gs'.mode)
                         ELSE gs.mode_steps
           IN  /\ gs'.mode_steps >= 0
               /\ gs'.mode_steps =
                      IF ~op'.updated THEN gs.mode_steps
                      ELSE IF gs.num_pellets >= 20 THEN loaded - 1
                      ELSE loaded]_vars

\* Two updates with 19 pellets: the one that turned the mode, and the next,
\* which has left the countdown at the duration of scatter.
CountdownHeldWith19Pellets ==
    /\ op.name = "step"
    /\ op.updated
    /\ gs.num_pellets = 19
    /\ gs.curr_ticks = 1830
    /\ gs.mode = "SCATTER"
    /\ gs.mode_steps = 60

\* C28: in no step made with fewer than 20 pellets does the timer turn the
\* mode.
NoTurnBelowThreshold ==
    [][gs.num_pellets < 20 => ~TimerTurnsMode]_vars

(***************************************************************************)
(* C29: every update takes one step off the countdown of the level,        *)
(* whatever the number of pellets; an update that finds it at 0 first      *)
(* makes the update period max(1, period - 2) and sets the countdown to    *)
(* 240, of which it takes the first step at once.  Other steps leave both  *)
(* alone.                                                                  *)
(***************************************************************************)
LevelCountdownAndPenalty ==
    [][op'.name = "step" =>
           IF ~op'.updated
           THEN /\ gs'.level_steps = gs.level_steps
                /\ gs'.update_period = gs.update_period
           ELSE IF gs.level_steps = 0
           THEN /\ gs'.level_steps = 240 - 1
                /\ gs'.update_period =
                       IF gs.update_period - 2 < 1 THEN 1 ELSE gs.update_period - 2
           ELSE /\ gs'.level_steps = gs.level_steps - 1
                /\ gs'.update_period = gs.update_period]_vars

\* The second penalty of the game at level 6, whose period the first one
\* took from 2 to 1: the period stays 1.
PenaltyAtPeriodOne ==
    /\ op.name = "step"
    /\ op.updated
    /\ gs.curr_level = 6
    /\ gs.curr_ticks = 2 * 960 + 2 + 240
    /\ gs.level_steps = 239
    /\ gs.update_period = 1

(***************************************************************************)
(* C30: the update period is always in 1..12, and a call that takes the    *)
(* game to the next level leaves it at max(1, 12 - 2 * (level - 1)) for    *)
(* the new level.                                                          *)
(***************************************************************************)
PeriodOfLevel(level) == IF 12 - 2 * (level - 1) < 1 THEN 1 ELSE 12 - 2 * (level - 1)

PeriodInRange ==
    [][/\ gs.update_period \in 1..12
       /\ gs'.update_period \in 1..12
       /\ gs'.curr_level > gs.curr_level
              => gs'.update_period = PeriodOfLevel(gs'.curr_level)
       /\ (query'.name = "counters" /\ query'.level > gs.curr_level)
              => query'.period = PeriodOfLevel(query'.level)]_vars

\* increment_level called on a game at level 6, where the period is 2.
NextLevelAtPeriodOne ==
    /\ query.name = "counters"
    /\ gs.curr_level = 6
    /\ gs.update_period = 2
    /\ query.level = 7
    /\ query.period = 1

(***************************************************************************)
(* C31: in a step that updates, the position of every agent after the      *)
(* advance, which is the position the collision pass of the step finds, is *)
(* the planned position the agent had before the step: row, column and     *)
(* direction.  The planning pass of a step leaves the positions as the     *)
(* update of the step left them.                                           *)
(***************************************************************************)
PlanningLatency ==
    [][op'.name = "step" =>
           \A c \in Colors :
               /\ op'.updated => coll_log'.pre_ghosts[c].loc = gs.ghosts[c].next_loc
               /\ op'.replanned =>
                      gs'.ghosts[c].loc =
                          step_update(next_tick(Running(gs))).ghosts[c].loc]_vars

\* A step has advanced an agent to another cell and planned its next one.
AdvancedAndPlanned ==
    /\ op.name = "step"
    /\ op.updated
    /\ op.replanned
    /\ \E c \in Colors :
           /\ plan_log[c].outcome = "chosen"
           /\ gs.ghosts[c].loc = coll_log.pre_ghosts[c].loc
           /\ get_coords(gs.ghosts[c].next_loc) # get_coords(gs.ghosts[c].loc)
           /\ gs.curr_ticks > 2 * gs.update_period

\* C32: a step plans the agents if and only if it has advanced them, also
\* when its bookkeeping changes the update period.
PhasesTogether ==
    [][op'.name = "step" => (op'.updated <=> op'.replanned)]_vars

(***************************************************************************)
(* C33: after construction, a death or a level reset every agent is        *)
(* spawning with the trapped steps of its colour, and step() can be        *)
(* repeated until every agent has left the spawning state.  Once the last  *)
(* life is lost the player stays at the sentinel, so no super pellet,      *)
(* collision or level reset follows that reset: the program must not stop  *)
(* there with an agent still spawning.                                     *)
(***************************************************************************)
AgentsJustReset ==
    \/ op.name = "new"
    \/ coll_log.did_pacman_die
    \/ pellet_log.level_reset

AgentsAsReset ==
    \A c \in Colors :
        /\ gs.ghosts[c].spawning
        /\ gs.ghosts[c].trapped_steps = GHOST_TRAPPED_STEPS[c + 1]

AllAgentsOut == \A c \in Colors : ~gs.ghosts[c].spawning

SpawningEnds ==
    /\ AgentsJustReset => AgentsAsReset
    /\ (gs.curr_lives = 0 /\ panic # "none") => AllAgentsOut

(***************************************************************************)
(* C34: a call whose collision pass kills the player leaves the pellet     *)
(* grid, the pellet count, the score and the level as they were, takes     *)
(* exactly one life (none when none is left), clears the fruit countdown   *)
(* and the combo counter, and leaves the player and the four agents at the *)
(* sentinel position.                                                      *)
(***************************************************************************)
DeathLeavesBoardAndScore ==
    [][(op'.name \in {"step", "move_pacman_dir"} /\ coll_log'.did_pacman_die)
          => /\ gs'.pellets = gs.pellets
             /\ gs'.num_pellets = gs.num_pellets
             /\ gs'.curr_score = gs.curr_score
             /\ gs'.curr_level = gs.curr_level
             /\ gs'.curr_lives = IF gs.curr_lives = 0 THEN 0 ELSE gs.curr_lives - 1
             /\ gs'.fruit_steps = 0
             /\ gs'.ghost_combo = 0
             /\ is_empty(gs'.pacman_loc)
             /\ \A c \in Colors : gs'.ghosts[c].loc = EMPTY_LOC]_vars

DiedWithScore ==
    /\ op.name \in {"step", "move_pacman_dir"}
    /\ coll_log.did_pacman_die
    /\ gs.curr_score > 0
    /\ gs.num_pellets < INIT_PELLET_COUNT
    /\ gs.curr_lives < INIT_LIVES

(***************************************************************************)
(* C35: the seed is read and advanced only where the planning pass takes   *)
(* the random choice for an agent with fright_steps > 1, once for each     *)
(* such agent in colour order: after a call the seed is the old seed       *)
(* advanced once per agent that took the random choice, each of them has   *)
(* the direction the seed then current draws from its valid moves, and     *)
(* every other call leaves the seed as it was.                             *)
(***************************************************************************)
DrewFromSeed(log) ==
    {c \in Colors : /\ log[c].outcome \in {"chosen", "no valid moves"}
                    /\ log[c].fright_steps > 1}

RECURSIVE SeedAdvanced(_, _)
SeedAdvanced(seed, times) ==
    IF times = 0 THEN seed ELSE SeedAdvanced(rng_gen(seed), times - 1)

SeedOnlyForFrightenedPlans ==
    [][LET drew == DrewFromSeed(plan_log')
       IN  /\ gs'.seed = SeedAdvanced(gs.seed, Cardinality(drew))
           /\ \A c \in drew :
                  LET seed == SeedAdvanced(gs.seed, Cardinality({d \in drew : d < c}))
                      valid == plan_log'[c].valid
                  IN  plan_log'[c].outcome = "chosen"
                          => plan_log'[c].chosen = valid[rng_choose(seed, Len(valid))]
           /\ (op'.name # "step" \/ ~op'.replanned) => drew = {}]_vars

TwoDrewFromSeed ==
    /\ op.name = "step"
    /\ op.replanned
    /\ \E c, d \in DrewFromSeed(plan_log) :
           /\ c < d
           /\ Len(plan_log[d].valid) > 1
           /\ plan_log[d].chosen # plan_log[d].valid[1]

(***************************************************************************)
(* C36: pause() followed by play() with a life left leaves the game        *)
(* running in the mode it had before pause(), or, when it was paused       *)
(* already, in the mode it was paused in; pause() on a paused game and     *)
(* play() on a running game change nothing, and play() without a life      *)
(* leaves the game paused.                                                 *)
(***************************************************************************)
PauseThenPlayRestoresMode ==
    query.name = "pause_play" =>
        \A i \in 1..Len(query.calls) :
            LET before == query.states[i]
                after == query.states[i + 1]
            IN  /\ (query.calls[i] = "pause" /\ is_paused(before)) => after = before
                /\ (query.calls[i] = "play" /\ ~is_paused(before)) => after = before
                /\ (query.calls[i] = "play" /\ before.curr_lives = 0) => after = before
                /\ query.calls[i] = "pause" => is_paused(after)
                /\ (/\ i < Len(query.calls)
                    /\ query.calls[i] = "pause"
                    /\ query.calls[i + 1] = "play"
                    /\ before.curr_lives > 0)
                       => /\ ~is_paused(query.states[i + 2])
                          /\ query.states[i + 2].mode = get_last_unpaused_mode(before)
                          /\ ~is_paused(before) => query.states[i + 2].mode = before.mode

PausedInChaseAndResumed ==
    /\ query.name = "pause_play"
    /\ query.calls = <<"pause", "play">>
    /\ query.states[1] = [mode |-> CHASE, lastUnpausedMode |-> SCATTER, curr_lives |-> 1]
    /\ is_paused(query.states[2])
    /\ query.states[3].mode = CHASE

(***************************************************************************)
(* C37: set_pacman_location(location) for a location it finds a path to    *)
(* leaves the game as the move_pacman_dir calls of that path leave it, no  *)
(* more; so a pellet goes only from a cell the player stands on.           *)
(***************************************************************************)
PlaceIsItsMoves ==
    [][op'.name = "set_pacman_location" =>
           LET likely_path == bfs(<<gs.pacman_loc.row, gs.pacman_loc.col>>, op'.location)
               moved == move_along(Running(gs), likely_path.path)
           IN  (in_bounds(op'.location) /\ ~wall_at(op'.location) /\ likely_path.found)
                   => /\ gs' = GameStateOf(moved)
                      /\ \A row \in 0..(MAZE_ROWS - 1), col \in 0..(MAZE_COLS - 1) :
                             (pellet_at(moved, <<row, col>>) /\ ~pellet_at(gs', <<row, col>>))
                                 => (gs'.pacman_loc.row = row /\ gs'.pacman_loc.col = col)]_vars

(***************************************************************************)
(* C38: the count of the pellets left is the number of bits set in the     *)
(* pellet grid, which is 244 at construction and after a level reset, and  *)
(* every bit set in the grid is a cell of the maze that is not a wall.     *)
(***************************************************************************)
PelletCountIsGridBits ==
    /\ gs.num_pellets = sum_ones(gs.pellets, 1)
    /\ (op.name = "new" \/ pellet_log.level_reset)
           => gs.num_pellets = INIT_PELLET_COUNT
    /\ Len(gs.pellets) = MAZE_ROWS
    /\ \A row \in 1..MAZE_ROWS :
           /\ gs.pellets[row] < 2 ^ MAZE_COLS
           /\ \A col \in 0..(MAZE_COLS - 1) :
                  get_bit_u32(gs.pellets[row], col)
                      => in_bounds(<<row - 1, col>>) /\ ~wall_at(<<row - 1, col>>)

PelletsCountedDownAndReset ==
    /\ pellet_log.level_reset
    /\ pellet_log.prior.num_pellets = 1
    /\ gs.num_pellets = INIT_PELLET_COUNT
    /\ gs.curr_level = INIT_LEVEL + 1

(***************************************************************************)
(* C39: after a step() that updated, no agent's position collides with the *)
(* player's: where they met in the collision pass, the player has died and *)
(* is at the sentinel, or the agent was eaten and is at the sentinel.      *)
(***************************************************************************)
\* What the advance, the respawn and the collision pass of an updating step
\* make of the game g.
AdvancedAndResolved(g) ==
    check_collisions(try_respawn_pacman(update_all_ghosts(Running(g))))

NoContactLeftAfterUpdate ==
    /\ (op.name = "step" /\ op.updated)
           => \A c \in Colors :
                  /\ ~collides_with(gs.pacman_loc, gs.ghosts[c].loc)
                  /\ collides_with(coll_log.pre_pacman_loc, coll_log.pre_ghosts[c].loc)
                         => \/ coll_log.did_pacman_die /\ is_empty(gs.pacman_loc)
                            \/ is_empty(gs.ghosts[c].loc)
    /\ LET after == AdvancedAndResolved(gs)
       IN  \A c \in Colors :
               /\ ~collides_with(after.pacman_loc, after.ghosts[c].loc)
               /\ (after.coll_log.did_pacman_die \/ is_empty(after.ghosts[c].loc))
                      \/ ~collides_with(after.coll_log.pre_pacman_loc,
                                        after.coll_log.pre_ghosts[c].loc)

ContactResolvedInUpdate ==
    /\ op.name = "step"
    /\ op.updated
    /\ \E c \in Colors :
           collides_with(coll_log.pre_pacman_loc, coll_log.pre_ghosts[c].loc)

(***************************************************************************)
(* C40: once no life is left the player stays at the sentinel, and no call *)
(* of step(), move_pacman_dir() or set_pacman_location() changes the       *)
(* score, the lives, the level, the pellet grid or the pellet count.       *)
(***************************************************************************)
GameOverAbsorbing ==
    [][gs.curr_lives = 0
          => /\ is_empty(gs.pacman_loc)
             /\ is_empty(gs'.pacman_loc)
             /\ gs'.curr_lives = 0
             /\ gs'.curr_score = gs.curr_score
             /\ gs'.curr_level = gs.curr_level
             /\ gs'.pellets = gs.pellets
             /\ gs'.num_pellets = gs.num_pellets]_vars

ToldLocationAfterGameOver ==
    /\ op.name = "set_pacman_location"
    /\ in_bounds(op.location) /\ ~wall_at(op.location)
    /\ ~coll_log.ran
    /\ gs.curr_lives = 0
    /\ gs.curr_ticks >= 3 * gs.update_period
    /\ gs.num_pellets > 0

====
